---- MODULE Spec2Model ----
(***************************************************************************)
(* A model of kischvidimer's diff/merge engine (src/kischvidimer/diff.py). *)
(* Python's 0-based list positions are 1-based here; Python's None is the  *)
(* integer None (-1) wherever it stands for "no distance" or "no match".   *)
(***************************************************************************)
EXTENDS Integers, Sequences, FiniteSets, TLC

None == 0 - 1

\* ------------------------------------------------------------------ bounds
MaxMatchLen == 2
MaxLen == 2
MaxCopies == 3

\* ------------------------------------------------- comparable leaf objects
\* A Comparable with KEYWORD kw and PROPS = ("v", "u").
PROPS == <<"v", "u">>
Item(kw, v, u) == [kw |-> kw, v |-> v, u |-> u]
\* The items the list matcher is run on: four variants of keyword a, and
\* one item each of the keywords b and c.
MatchItems == [kw : {"a"}, v : {0, 1}, u : {0, 1}] \cup {Item("b", 0, 0), Item("c", 0, 0)}

\* Comparable.__eq__: same KEYWORD and all PROPS equal.
Comparable_eq(self, other) ==
  /\ self.kw = other.kw
  /\ \A p \in 1..Len(PROPS) : self[PROPS[p]] = other[PROPS[p]]

\* Comparable.diff: None (disparate) when the KEYWORDs differ, otherwise one
\* (key, old, new) entry per differing property, in PROPS order.
RECURSIVE PropDiffs(_, _, _)
PropDiffs(self, other, p) ==
  IF p > Len(PROPS) THEN <<>>
  ELSE (IF self[PROPS[p]] # other[PROPS[p]]
        THEN <<[key |-> PROPS[p], old |-> self[PROPS[p]], new |-> other[PROPS[p]]]>>
        ELSE <<>>) \o PropDiffs(self, other, p + 1)

Comparable_diff(self, other) ==
  IF self.kw # other.kw THEN [disparate |-> TRUE, diffs |-> <<>>]
  ELSE [disparate |-> FALSE, diffs |-> PropDiffs(self, other, 1)]

\* distance with the fast test negated: 1 * self.__eq__(other).
distance_inverted(self, other, fast) ==
  IF fast THEN (IF Comparable_eq(self, other) THEN 1 ELSE 0)
  ELSE LET d == Comparable_diff(self, other)
       IN IF d.disparate THEN None ELSE Len(d.diffs)

\* Comparable.distance: with fast, 0 or 1 by equality; otherwise the number of
\* diffs, or None when disparate.
distance(self, other, fast) ==
  IF fast THEN (IF Comparable_eq(self, other) THEN 0 ELSE 1)
  ELSE LET d == Comparable_diff(self, other)
       IN IF d.disparate THEN None ELSE Len(d.diffs)

\* ------------------------------------------------------------- matchlists
\* The matcher state: bm = base_matches, om = other_matched, dead = the rows
\* of matrix set to None, mx = the cells of matrix.
MatchStart(base, other) ==
  [bm   |-> [i \in 1..Len(base) |-> None],
   om   |-> {},
   dead |-> {},
   mx   |-> [i \in 1..Len(base) |-> [j \in 1..Len(other) |-> None]]]

\* Lines 443-457: the fast pass.
RECURSIVE Pass1Cols(_, _, _, _, _)
Pass1Cols(base, other, ms, i, j) ==
  IF j > Len(other) THEN ms
  ELSE IF j \in ms.om THEN Pass1Cols(base, other, ms, i, j + 1)
  ELSE LET d == distance(base[i], other[j], TRUE)
       IN IF d = 0
          THEN [bm   |-> [ms.bm EXCEPT ![i] = j],
                om   |-> ms.om \cup {j},
                dead |-> ms.dead \cup {i},
                mx   |-> [k \in DOMAIN ms.mx |->
                            IF k < i /\ k \notin ms.dead
                            THEN [ms.mx[k] EXCEPT ![j] = None]
                            ELSE ms.mx[k]]]
          ELSE Pass1Cols(base, other, [ms EXCEPT !.mx[i][j] = d], i, j + 1)

RECURSIVE Pass1Rows(_, _, _, _)
Pass1Rows(base, other, ms, i) ==
  IF i > Len(base) THEN ms
  ELSE Pass1Rows(base, other, Pass1Cols(base, other, ms, i, 1), i + 1)

\* The second pass asking for the fast distance again, which is never None.
RECURSIVE Pass2Cols_fast(_, _, _, _, _)
Pass2Cols_fast(base, other, ms, i, j) ==
  IF j > Len(other) THEN ms
  ELSE LET d == IF ms.mx[i][j] # None
                THEN distance(base[i], other[j], TRUE)
                ELSE None
       IN IF d = 0
          THEN [bm   |-> [ms.bm EXCEPT ![i] = j],
                om   |-> ms.om \cup {j},
                dead |-> ms.dead \cup {i},
                mx   |-> [k \in DOMAIN ms.mx |->
                            IF k # i /\ k \notin ms.dead
                            THEN [ms.mx[k] EXCEPT ![j] = None]
                            ELSE ms.mx[k]]]
          ELSE Pass2Cols_fast(base, other, [ms EXCEPT !.mx[i][j] = d], i, j + 1)

\* Lines 460-474: the full-distance pass over the rows still live.
RECURSIVE Pass2Cols(_, _, _, _, _)
Pass2Cols(base, other, ms, i, j) ==
  IF j > Len(other) THEN ms
  ELSE LET d == IF ms.mx[i][j] # None
                THEN distance(base[i], other[j], FALSE)
                ELSE None
       IN IF d = 0
          THEN [bm   |-> [ms.bm EXCEPT ![i] = j],
                om   |-> ms.om \cup {j},
                dead |-> ms.dead \cup {i},
                mx   |-> [k \in DOMAIN ms.mx |->
                            IF k # i /\ k \notin ms.dead
                            THEN [ms.mx[k] EXCEPT ![j] = None]
                            ELSE ms.mx[k]]]
          ELSE Pass2Cols(base, other, [ms EXCEPT !.mx[i][j] = d], i, j + 1)

RECURSIVE Pass2Rows(_, _, _, _)
Pass2Rows(base, other, ms, i) ==
  IF i > Len(base) THEN ms
  ELSE IF i \in ms.dead THEN Pass2Rows(base, other, ms, i + 1)
  ELSE Pass2Rows(base, other, Pass2Cols(base, other, ms, i, 1), i + 1)

\* The live cells of the matrix: row not None, cell not None.
LiveCells(ms) ==
  {c \in (DOMAIN ms.mx) \X (IF DOMAIN ms.mx = {} THEN {} ELSE DOMAIN ms.mx[1]) :
     c[1] \notin ms.dead /\ ms.mx[c[1]][c[2]] # None}

\* _minmatrix replacing best on a value that is smaller or equal: the last
\* cell in row-major order holding the smallest value.
minmatrix_last(ms) ==
  IF LiveCells(ms) = {} THEN <<None, None>>
  ELSE CHOOSE c \in LiveCells(ms) :
         \A e \in LiveCells(ms) :
           \/ ms.mx[c[1]][c[2]] < ms.mx[e[1]][e[2]]
           \/ /\ ms.mx[c[1]][c[2]] = ms.mx[e[1]][e[2]]
              /\ (c[1] > e[1] \/ (c[1] = e[1] /\ c[2] >= e[2]))

\* _minmatrix: the first cell in row-major order holding the smallest value
\* (the scan replaces best only on a strictly smaller value), or None.
minmatrix(ms) ==
  IF LiveCells(ms) = {} THEN <<None, None>>
  ELSE CHOOSE c \in LiveCells(ms) :
         \A e \in LiveCells(ms) :
           \/ ms.mx[c[1]][c[2]] < ms.mx[e[1]][e[2]]
           \/ /\ ms.mx[c[1]][c[2]] = ms.mx[e[1]][e[2]]
              /\ (c[1] < e[1] \/ (c[1] = e[1] /\ c[2] <= e[2]))

\* A round of the greedy loop that blanks the row only.
GreedyStep_keepcol(ms, best) ==
  [bm   |-> [ms.bm EXCEPT ![best[1]] = best[2]],
   om   |-> ms.om \cup {best[2]},
   dead |-> ms.dead \cup {best[1]},
   mx   |-> ms.mx]

\* Lines 480-485: one round of the greedy loop for the cell best.
GreedyStep(ms, best) ==
  [bm   |-> [ms.bm EXCEPT ![best[1]] = best[2]],
   om   |-> ms.om \cup {best[2]},
   dead |-> ms.dead \cup {best[1]},
   mx   |-> [k \in DOMAIN ms.mx |->
               IF k \notin ms.dead /\ k # best[1]
               THEN [ms.mx[k] EXCEPT ![best[2]] = None]
               ELSE ms.mx[k]]]

RECURSIVE GreedyLoop(_)
GreedyLoop(ms) ==
  LET best == minmatrix(ms)
  IN IF best[1] = None THEN ms ELSE GreedyLoop(GreedyStep(ms, best))

\* The ascending sequence of the members of a set of integers.
RECURSIVE SortedSeq(_)
SortedSeq(S) ==
  IF S = {} THEN <<>>
  ELSE LET m == CHOOSE x \in S : \A y \in S : x <= y
       IN <<m>> \o SortedSeq(S \ {m})

\* Lines 487-490: positions instead of the objects themselves: entry i is
\* the other position matched to base position i (None: removed), followed
\* by the other positions never matched (added).
Summarize(base, other, ms) ==
  [i \in 1..Len(base) |-> ms.bm[i]] \o SortedSeq((1..Len(other)) \ ms.om)

matchlists(base, other) ==
  Summarize(base, other,
    GreedyLoop(Pass2Rows(base, other,
      Pass1Rows(base, other, MatchStart(base, other), 1), 1)))

\* ------------------------------------------------------------------- Diff
\* A page holds an ordered list of child items.  Objects have identities:
\* the base page's children are 1..Len(base); the children of the ours and
\* theirs pages, which an add diff carries by reference, are OursId + j and
\* TheirsId + j.  A leaf Diff is a record: tgt is the target's identity (Page
\* for the page itself), key the key, (old, new) the data of a property diff,
\* oldc the deep copy of a removed child and rmc that child's identity, newc
\* the identity of an added child.
Page == 0
OursId == 10
TheirsId == 20
NoItem == Item("", 0, 0)

\* The properties whose diffs the page's diff() flags with set_unimportant.
UnimportantKeys == {"u"}

AddDiff(id) ==
  [tgt |-> Page, key |-> "children", old |-> None, new |-> None,
   oldc |-> NoItem, rmc |-> 0, newc |-> id, unimp |-> FALSE]
RmDiff(id, item) ==
  [tgt |-> Page, key |-> "children", old |-> None, new |-> None,
   oldc |-> item, rmc |-> id, newc |-> 0, unimp |-> FALSE]
ModDiff(id, d) ==
  [tgt |-> id, key |-> d.key, old |-> d.old, new |-> d.new,
   oldc |-> NoItem, rmc |-> 0, newc |-> 0, unimp |-> d.key \in UnimportantKeys]

\* Diff.APPLY_* flags, as sets of flag names; | is union.
APPLY_IMPORTANT == {"IMPORTANT"}
APPLY_UNIMPORTANT == {"UNIMPORTANT"}
APPLY_FORCEIMPORTANT == {"FORCEIMPORTANT"}
APPLY_ALL == APPLY_IMPORTANT \cup APPLY_UNIMPORTANT
APPLY_FORCEALL == APPLY_ALL \cup APPLY_FORCEIMPORTANT

\* difflists: the adds first, then per base position a removal or the group
\* of the child's own diffs.  flat is the flattened list of leaf diffs; tree
\* is the list of top-level Diffs, each naming its leaves by flat position
\* (grp: a Diff whose data is the list of the diffs of child).
RECURSIVE DiffRows(_, _, _, _, _)
DiffRows(base, other, m, i, acc) ==
  IF i > Len(base) THEN acc
  ELSE IF m[i] = None
  THEN DiffRows(base, other, m, i + 1,
         [flat |-> Append(acc.flat, RmDiff(i, base[i])),
          tree |-> Append(acc.tree,
                     [grp |-> FALSE, child |-> 0, idx |-> <<Len(acc.flat) + 1>>])])
  ELSE LET subdiff == Comparable_diff(base[i], other[m[i]])
       IN IF subdiff.disparate \/ subdiff.diffs = <<>>
          THEN DiffRows(base, other, m, i + 1, acc)
          ELSE DiffRows(base, other, m, i + 1,
                 [flat |-> acc.flat \o
                      [q \in 1..Len(subdiff.diffs) |-> ModDiff(i, subdiff.diffs[q])],
                  tree |-> Append(acc.tree,
                      [grp |-> TRUE, child |-> i,
                       idx |-> [q \in 1..Len(subdiff.diffs) |-> Len(acc.flat) + q]])])

difflists(base, other, otherId) ==
  LET m == matchlists(base, other)
      adds == SubSeq(m, Len(base) + 1, Len(m))
  IN DiffRows(base, other, m, 1,
       [flat |-> [a \in 1..Len(adds) |-> AddDiff(otherId + adds[a])],
        tree |-> [a \in 1..Len(adds) |-> [grp |-> FALSE, child |-> 0, idx |-> <<a>>]]])

\* is_unimportant answering True for every diff unless forced.
is_unimportant_always(d, applymode) ==
  IF APPLY_FORCEIMPORTANT \subseteq applymode THEN FALSE ELSE TRUE

\* Diff.is_unimportant for a leaf.
is_unimportant(d, applymode) ==
  IF APPLY_FORCEIMPORTANT \subseteq applymode THEN FALSE ELSE d.unimp

\* Diff.should_be_applied.
should_be_applied(d, mode) ==
  IF is_unimportant(d, {}) THEN APPLY_UNIMPORTANT \subseteq mode
  ELSE APPLY_IMPORTANT \subseteq mode

\* Diff.redundant_with for two leaves: same target and key, same shape and
\* equal data ((old, new) compared with ==, objects structurally).
redundant_with(self, other, obj) ==
  /\ self.tgt = other.tgt /\ self.key = other.key
  /\ self.old = other.old /\ self.new = other.new
  /\ (self.oldc = NoItem) = (other.oldc = NoItem)
  /\ (self.newc = 0) = (other.newc = 0)
  /\ Comparable_eq(self.oldc, other.oldc)
  /\ (self.newc # 0 => Comparable_eq(obj[self.newc], obj[other.newc]))

\* --------------------------------------------------- the state of a merge
\* What copy.deepcopy(state) copies: the page (children: the identities of
\* its children in order; deleted: those it has removed; obj: every object's
\* current value) and the _redundant flags of the diffs of both sides.
PageState(base, ours, theirs) ==
  [children |-> [i \in 1..Len(base) |-> i],
   deleted  |-> <<>>,
   obj      |-> [id \in (1..Len(base)) \cup {OursId + j : j \in 1..Len(ours)}
                          \cup {TheirsId + j : j \in 1..Len(theirs)} |->
                   IF id > TheirsId THEN theirs[id - TheirsId]
                   ELSE IF id > OursId THEN ours[id - OursId]
                   ELSE base[id]],
   red      |-> [ours |-> {}, theirs |-> {}]]

\* Comparable.apply without the assignment of line 91.
Comparable_apply_noset(self, key, old, new) ==
  IF self[key] \notin {old, new} THEN [res |-> "conflict", self |-> self]
  ELSE IF self[key] = new THEN [res |-> "redundant", self |-> self]
  ELSE [res |-> "ok", self |-> self]

\* Comparable.apply without the test of line 87: the property is set
\* whatever it holds, unless it holds new.
Comparable_apply_anyold(self, key, old, new) ==
  IF self[key] = new THEN [res |-> "redundant", self |-> self]
  ELSE [res |-> "ok", self |-> [self EXCEPT ![key] = new]]

\* Comparable.apply for a key in PROPS: conflict unless the property holds
\* old or new, redundant when it holds new, otherwise set it.
Comparable_apply(self, key, old, new) ==
  IF self[key] \notin {old, new} THEN [res |-> "conflict", self |-> self]
  ELSE IF self[key] = new THEN [res |-> "redundant", self |-> self]
  ELSE [res |-> "ok", self |-> [self EXCEPT ![key] = new]]

RemoveAt(seq, p) == SubSeq(seq, 1, p - 1) \o SubSeq(seq, p + 1, Len(seq))

Min(S) == CHOOSE x \in S : \A y \in S : x <= y

\* The set of the members of a sequence.
Range(seq) == {seq[i] : i \in 1..Len(seq)}

\* The page's apply(key, data): an add appends the new child; a removal
\* takes the child out and records it as deleted, is a conflict when the
\* child no longer equals the copy old taken when the diff was made, and is
\* redundant when the child has been deleted already.
Page_apply(st, d) ==
  IF d.newc # 0
  THEN [res |-> "ok", st |-> [st EXCEPT !.children = Append(@, d.newc)]]
  ELSE IF d.rmc \notin Range(st.children)
  THEN [res |-> "redundant", st |-> st]
  ELSE IF ~Comparable_eq(st.obj[d.rmc], d.oldc)
  THEN [res |-> "conflict", st |-> st]
  ELSE LET p == CHOOSE q \in 1..Len(st.children) : st.children[q] = d.rmc
       IN [res |-> "ok",
           st  |-> [st EXCEPT !.children = RemoveAt(@, p),
                              !.deleted = Append(@, d.rmc)]]

\* HasProperties.child_is_deleted: child in the list of deleted children
\* (Python's in: the same object, or an equal one).
child_is_deleted(st, child) ==
  \E p \in 1..Len(st.deleted) :
     st.deleted[p] = child \/ Comparable_eq(st.obj[st.deleted[p]], st.obj[child])

\* self._target_class.apply(self._target, self._key, self._data)
Target_apply(st, d) ==
  IF d.tgt = Page THEN Page_apply(st, d)
  ELSE LET r == Comparable_apply(st.obj[d.tgt], d.key, d.old, d.new)
       IN [res |-> r.res, st |-> [st EXCEPT !.obj[d.tgt] = r.self]]

set_redundant(st, side, i) == [st EXCEPT !.red[side] = @ \cup {i}]

\* Diff.apply of leaf i of a side (lines 299-312): the new state and the
\* conflicts (flat positions).
Diff_apply(D, st, side, i, mode) ==
  LET d == D[side].flat[i]
  IN IF ~should_be_applied(d, mode) THEN [st |-> st, conflicts |-> <<>>]
     ELSE LET r == Target_apply(st, d)
          IN IF r.res = "ok" THEN [st |-> r.st, conflicts |-> <<>>]
             ELSE IF r.res = "redundant" \/ is_unimportant(d, mode)
             THEN [st |-> set_redundant(st, side, i), conflicts |-> <<>>]
             ELSE [st |-> st, conflicts |-> <<i>>]

\* Diff.apply of a Diff holding a list (lines 288-298), from its q-th diff.
RECURSIVE Group_apply(_, _, _, _, _, _)
Group_apply(D, acc, side, e, q, mode) ==
  IF q > Len(e.idx) THEN acc
  ELSE LET i == e.idx[q]
           d == D[side].flat[i]
       IN IF child_is_deleted(acc.st, e.child)
          THEN IF should_be_applied(d, mode) /\ is_unimportant(d, mode)
               THEN Group_apply(D, [acc EXCEPT !.st = set_redundant(@, side, i)],
                                side, e, q + 1, mode)
               ELSE Group_apply(D,
                      [acc EXCEPT !.conflicts =
                          @ \o (IF should_be_applied(d, mode) THEN <<i>> ELSE <<>>)],
                      side, e, q + 1, mode)
          ELSE LET r == Diff_apply(D, acc.st, side, i, mode)
               IN Group_apply(D,
                    [st |-> r.st, conflicts |-> acc.conflicts \o r.conflicts],
                    side, e, q + 1, mode)

\* _applylist over the top-level diffs of a side, from the n-th.
RECURSIVE applylist(_, _, _, _, _)
applylist(D, acc, side, n, mode) ==
  IF n > Len(D[side].tree) THEN acc
  ELSE LET e == D[side].tree[n]
       IN IF e.grp
          THEN applylist(D, Group_apply(D, acc, side, e, 1, mode), side, n + 1, mode)
          ELSE LET r == Diff_apply(D, acc.st, side, e.idx[1], mode)
               IN applylist(D,
                    [st |-> r.st, conflicts |-> acc.conflicts \o r.conflicts],
                    side, n + 1, mode)

\* _applylist over a flat list of leaf diffs, each a <<side, position>>; the
\* conflicts are such pairs too.
RECURSIVE applyflat(_, _, _, _, _)
applyflat(D, acc, list, n, mode) ==
  IF n > Len(list) THEN acc
  ELSE LET r == Diff_apply(D, acc.st, list[n][1], list[n][2], mode)
       IN applyflat(D,
            [st |-> r.st,
             conflicts |-> acc.conflicts \o
                 [c \in 1..Len(r.conflicts) |-> <<list[n][1], r.conflicts[c]>>]],
            list, n + 1, mode)

\* applylists (lines 523-535) over lists of <<side, position>>: the
\* important diffs of every list in turn, then the unimportant ones.  The
\* lists named in oneshot are generators: the first loop exhausts them, so
\* the second loop finds them empty.
RECURSIVE applylists_pass(_, _, _, _, _, _)
applylists_pass(D, acc, lists, n, mode, skip) ==
  IF n > Len(lists) THEN acc
  ELSE applylists_pass(D,
         IF n \in skip THEN acc ELSE applyflat(D, acc, lists[n], 1, mode),
         lists, n + 1, mode, skip)

applylists(D, st, lists, oneshot) ==
  LET first  == applylists_pass(D, [st |-> st, conflicts |-> <<>>], lists, 1,
                                APPLY_IMPORTANT, {})
      second == applylists_pass(D, [st |-> first.st, conflicts |-> <<>>], lists, 1,
                                APPLY_UNIMPORTANT, oneshot)
  IN [st |-> second.st, conflicts |-> first.conflicts,
      raised |-> IF second.conflicts # <<>>
                 THEN "unimportant diffs shouldn't conflict" ELSE ""]

\* _determine_association, a pair being [ours, theirs], two sets of flat
\* positions.  Lines 573-580: the pair under work, left with ours_indices
\* and no theirs diff, goes into the first pair that shares an ours diff
\* with it (itself when no earlier one does).
AssocCombine(pairs, k, theirs_index, ours_indices) ==
  LET popped == [pairs EXCEPT ![k] = [ours |-> ours_indices, theirs |-> {}]]
      hits   == {p \in 1..Len(popped) : popped[p].ours \cap ours_indices # {}}
  IN IF hits = {}
     THEN [pairs |-> pairs, err |-> "unexpected: failed to find ours_indices in the list"]
     ELSE [pairs |-> [popped EXCEPT ![Min(hits)] =
                        [ours |-> @.ours \cup ours_indices,
                         theirs |-> @.theirs \cup {theirs_index}]],
           err |-> ""]

\* Lines 559-571: after holds the state and the conflicts of applying every
\* ours diff on top of the theirs diff.
AssocAfter(pairs, k, theirs_index, after, associate_redundant_diffs) ==
  IF associate_redundant_diffs
  THEN IF after.st.red.ours = {} /\ after.conflicts = <<>>
       THEN [pairs |-> pairs, err |-> ""]
       ELSE AssocCombine(pairs, k, theirs_index, after.st.red.ours)
  ELSE IF after.conflicts = <<>>
       THEN [pairs |-> pairs, err |-> "unexpected: failed to find ours conflicts for diff"]
       ELSE AssocCombine(pairs, k, theirs_index, Range(after.conflicts))

\* Lines 553-559: tried is the result of applying the theirs diff to a copy
\* of the state.
AssocTrial(D, pairs, k, theirs_index, tried, associate_redundant_diffs) ==
  IF tried.conflicts # <<>>
  THEN [pairs |-> pairs, err |-> "unexpected: failed to apply theirs diff"]
  ELSE AssocAfter(pairs, k, theirs_index,
         applylist(D, [st |-> tried.st, conflicts |-> <<>>], "ours", 1, APPLY_FORCEALL),
         associate_redundant_diffs)

\* Lines 544-552: ours_indices after the association by equivalence.
AssocWith(D, st0, pairs, k, theirs_index, ours_indices, associate_redundant_diffs) ==
  IF ours_indices # {}
  THEN AssocCombine(pairs, k, theirs_index, ours_indices)
  ELSE AssocTrial(D, pairs, k, theirs_index,
         Diff_apply(D, st0, "theirs", theirs_index, APPLY_ALL),
         associate_redundant_diffs)

\* The ours diffs the theirs diff is redundant_with (lines 547-549).
AssocByEq(D, st0, theirs_index, associate_redundant_diffs) ==
  IF associate_redundant_diffs
  THEN {i \in 1..Len(D.ours.flat) :
          redundant_with(D.theirs.flat[theirs_index], D.ours.flat[i], st0.obj)}
  ELSE {}

\* One round of the loop (lines 541-580) for pairs[k], whose theirs side
\* holds one diff.
AssocOne(D, st0, pairs, k, associate_redundant_diffs) ==
  LET theirs_index == CHOOSE t \in pairs[k].theirs : TRUE
  IN AssocWith(D, st0, pairs, k, theirs_index,
       pairs[k].ours \cup AssocByEq(D, st0, theirs_index, associate_redundant_diffs),
       associate_redundant_diffs)

RECURSIVE AssocLoop(_, _, _, _, _)
AssocLoop(D, st0, pairs, k, associate_redundant_diffs) ==
  IF k > Len(pairs) THEN [pairs |-> pairs, err |-> ""]
  ELSE LET r == AssocOne(D, st0, pairs, k, associate_redundant_diffs)
       IN IF r.err # "" THEN r
          ELSE AssocLoop(D, st0, r.pairs, k + 1, associate_redundant_diffs)

\* _determine_association finding no pair at all.
determine_association_none(D, st0, pairs, associate_redundant_diffs) ==
  [pairs |-> <<>>, err |-> ""]

\* _determine_association: the pairs with their theirs side not empty.
determine_association(D, st0, pairs, associate_redundant_diffs) ==
  LET r == AssocLoop(D, st0, pairs, 1, associate_redundant_diffs)
      NonEmpty(p) == p.theirs # {}
  IN [pairs |-> SelectSeq(r.pairs, NonEmpty), err |-> r.err]

\* --------------------------------------------------------------- the state
\* The list matcher: its two lists, its position, its working state, result.
VARIABLES mbase, mother, mpc, mstate, mresult
\* A three-way merge: the children of the three pages, whether return_safe
\* is a list, the position in threeway and its caller, the page base with
\* the diffs' flags (state), both diff lists (diffs), the theirs diffs the
\* trial run flagged redundant (tred), the conflict pairs, the safe diffs
\* and pairs, the filled return_safe, the exception raised, and the number
\* of conflict pairs the caller has resolved.
VARIABLES base, ours, theirs, listmode, pc, state, diffs, tred, pairs,
          dours_safe, dtheirs_safe, safe_pairs, return_safe, err, resolved
\* Applying one diff list: the conflicts applylists returned.
VARIABLES aconflicts
\* The other subsystems, one record each: the s-expression parser and
\* printer (sx), an SExp node with its indexes (nd), a Variables table (vt),
\* the NetBus objects of a netlist (nb), KicadPro.get_pages (kp) and an
\* object with a HasUUID identity (hu).
VARIABLES sx, nd, vt, nb, kp, hu
\* One property diff applied again and again (pd), and a merge whose
\* conflicts go to the conflict UI (ui).
VARIABLES pd, ui

matchVars == <<mbase, mother, mpc, mstate, mresult>>
mergeVars == <<base, ours, theirs, listmode, pc, state, diffs, tred, pairs,
               dours_safe, dtheirs_safe, safe_pairs, return_safe, err, resolved>>
applyVars == <<aconflicts>>
restVars == <<sx, nd, vt, nb, kp, hu, pd, ui>>
vars == <<matchVars, mergeVars, applyVars, restVars>>

\* All sequences over S of length at most n.
SeqUpTo(S, n) == UNION {[1..k -> S] : k \in 0..n}

NoDiffs == [ours |-> [flat |-> <<>>, tree |-> <<>>], theirs |-> [flat |-> <<>>, tree |-> <<>>]]

ApplyIdle == aconflicts = <<>>

Idle == [pc |-> "idle"]

RestIdle ==
  /\ sx = Idle /\ nd = Idle /\ vt = Idle /\ nb = Idle /\ kp = Idle /\ hu = Idle
  /\ pd = Idle /\ ui = Idle

MatchIdle ==
  /\ mbase = <<>> /\ mother = <<>> /\ mpc = "idle"
  /\ mstate = MatchStart(<<>>, <<>>) /\ mresult = <<>>

MergeIdle ==
  /\ base = <<>> /\ ours = <<>> /\ theirs = <<>> /\ listmode = FALSE
  /\ pc = "idle" /\ state = PageState(<<>>, <<>>, <<>>) /\ diffs = NoDiffs
  /\ tred = {} /\ pairs = <<>> /\ dours_safe = <<>> /\ dtheirs_safe = <<>>
  /\ safe_pairs = <<>> /\ return_safe = <<>> /\ err = "" /\ resolved = 0

\* --------------------------------------- specification of the list matcher
MatchInit ==
  /\ mbase \in SeqUpTo(MatchItems, MaxMatchLen)
  /\ mother \in SeqUpTo(MatchItems, MaxMatchLen)
  /\ mpc = "pass1"
  /\ mstate = MatchStart(mbase, mother)
  /\ mresult = <<>>
  /\ MergeIdle /\ ApplyIdle /\ RestIdle

MatchPass1 ==
  /\ mpc = "pass1"
  /\ mstate' = Pass1Rows(mbase, mother, mstate, 1)
  /\ mpc' = "pass2"
  /\ UNCHANGED <<mbase, mother, mresult, mergeVars, applyVars, restVars>>

MatchPass2 ==
  /\ mpc = "pass2"
  /\ mstate' = Pass2Rows(mbase, mother, mstate, 1)
  /\ mpc' = "greedy"
  /\ UNCHANGED <<mbase, mother, mresult, mergeVars, applyVars, restVars>>

MatchGreedy ==
  /\ mpc = "greedy"
  /\ minmatrix(mstate)[1] # None
  /\ mstate' = GreedyStep(mstate, minmatrix(mstate))
  /\ UNCHANGED <<mbase, mother, mpc, mresult, mergeVars, applyVars, restVars>>

MatchSummarize ==
  /\ mpc = "greedy"
  /\ minmatrix(mstate)[1] = None
  /\ mresult' = Summarize(mbase, mother, mstate)
  /\ mpc' = "done"
  /\ UNCHANGED <<mbase, mother, mstate, mergeVars, applyVars, restVars>>

MatchNext == MatchPass1 \/ MatchPass2 \/ MatchGreedy \/ MatchSummarize

SpecMatch == MatchInit /\ [][MatchNext]_vars

\* ------------------------------------------ specification of threeway
\* The children the three pages are drawn from.
BaseItems == {Item("a", 0, 0), Item("a", 1, 0), Item("b", 0, 0)}
OursItems == [kw : {"a"}, v : {0, 1}, u : {0, 1}] \cup {Item("b", 0, 0)}
TheirsItems == [kw : {"a"}, v : {0, 1, 2}, u : {0, 1, 2}] \cup {Item("b", 0, 0)}

MergeInit ==
  /\ base \in SeqUpTo(BaseItems, MaxLen)
  /\ ours \in SeqUpTo(OursItems, MaxLen)
  /\ theirs \in SeqUpTo(TheirsItems, MaxLen)
  /\ listmode \in BOOLEAN
  /\ pc = "diff"
  /\ state = PageState(base, ours, theirs)
  /\ diffs = NoDiffs
  /\ tred = {} /\ pairs = <<>> /\ dours_safe = <<>> /\ dtheirs_safe = <<>>
  /\ safe_pairs = <<>> /\ return_safe = <<>> /\ err = "" /\ resolved = 0
  /\ MatchIdle /\ ApplyIdle /\ RestIdle

\* threeway, lines 596-606: base.diff(ours), base.diff(theirs), flattened.
\* The page's diff() is difflists over its children.
ThreewayDiff ==
  /\ pc = "diff"
  /\ diffs' = [ours   |-> difflists(base, ours, OursId),
               theirs |-> difflists(base, theirs, TheirsId)]
  /\ pc' = "trial"
  /\ UNCHANGED <<base, ours, theirs, listmode, state, tred, pairs, dours_safe,
                 dtheirs_safe, safe_pairs, return_safe, err, resolved, matchVars, applyVars, restVars>>

\* threeway, lines 608-621: the trial run on a copy, and the association of
\* every theirs conflict with ours diffs.
ThreewayTrial ==
  /\ pc = "trial"
  /\ LET a1 == applylist(diffs, [st |-> state, conflicts |-> <<>>], "ours", 1,
                         APPLY_IMPORTANT)
         a2 == applylist(diffs, [st |-> a1.st, conflicts |-> <<>>], "theirs", 1,
                         APPLY_IMPORTANT)
         a3 == applylist(diffs, [st |-> a2.st, conflicts |-> <<>>], "ours", 1,
                         APPLY_UNIMPORTANT)
         a4 == applylist(diffs, [st |-> a3.st, conflicts |-> <<>>], "theirs", 1,
                         APPLY_UNIMPORTANT \cup APPLY_FORCEIMPORTANT)
         conflicts == a2.conflicts \o a4.conflicts
         seeds == [c \in 1..Len(conflicts) |-> [ours |-> {}, theirs |-> {conflicts[c]}]]
         assoc == determine_association(diffs, state, seeds, FALSE)
     IN IF a1.conflicts # <<>>
        THEN /\ err' = "unexpected: failed to apply ours diff"
             /\ pc' = "raised"
             /\ UNCHANGED <<tred, pairs>>
        ELSE IF a3.conflicts # <<>>
        THEN /\ err' = "unexpected: unimportant diffs should not conflict"
             /\ pc' = "raised"
             /\ UNCHANGED <<tred, pairs>>
        ELSE IF assoc.err # ""
        THEN /\ err' = assoc.err
             /\ pc' = "raised"
             /\ UNCHANGED <<tred, pairs>>
        ELSE /\ tred' = a4.st.red.theirs
             /\ pairs' = assoc.pairs
             /\ pc' = "classify"
             /\ UNCHANGED err
  /\ UNCHANGED <<base, ours, theirs, listmode, state, diffs, dours_safe,
                 dtheirs_safe, safe_pairs, return_safe, resolved, matchVars, applyVars, restVars>>

InSome(ps, side, i) == \E p \in 1..Len(ps) : i \in ps[p][side]

AllUnimportant(D, side, S) == \A i \in S : is_unimportant(D[side].flat[i], {})

\* threeway, lines 623-630, with "and" for the "or" of line 628: a pair is
\* safe only when the diffs of both sides are all unimportant.
ThreewayClassify_and ==
  /\ pc = "classify"
  /\ LET OursSafe(i) == ~InSome(pairs, "ours", i)
         TheirsSafe(i) == ~InSome(pairs, "theirs", i)
         IsSafePair(p) == /\ AllUnimportant(diffs, "ours", p.ours)
                          /\ AllUnimportant(diffs, "theirs", p.theirs)
         IsTruePair(p) == ~IsSafePair(p)
     IN /\ dours_safe' = SortedSeq({i \in 1..Len(diffs.ours.flat) : OursSafe(i)})
        /\ dtheirs_safe' = SortedSeq({i \in 1..Len(diffs.theirs.flat) : TheirsSafe(i)})
        /\ safe_pairs' = SelectSeq(pairs, IsSafePair)
        /\ pairs' = SelectSeq(pairs, IsTruePair)
  /\ pc' = "finish"
  /\ UNCHANGED <<base, ours, theirs, listmode, state, diffs, tred, return_safe,
                 err, resolved, matchVars, applyVars, restVars>>

\* threeway, lines 623-630: the safe diffs, and the pairs that are no true
\* conflict because all diffs of one side are unimportant.
ThreewayClassify ==
  /\ pc = "classify"
  /\ LET OursSafe(i) == ~InSome(pairs, "ours", i)
         TheirsSafe(i) == ~InSome(pairs, "theirs", i)
         IsSafePair(p) == \/ AllUnimportant(diffs, "ours", p.ours)
                          \/ AllUnimportant(diffs, "theirs", p.theirs)
         IsTruePair(p) == ~IsSafePair(p)
     IN /\ dours_safe' = SortedSeq({i \in 1..Len(diffs.ours.flat) : OursSafe(i)})
        /\ dtheirs_safe' = SortedSeq({i \in 1..Len(diffs.theirs.flat) : TheirsSafe(i)})
        /\ safe_pairs' = SelectSeq(pairs, IsSafePair)
        /\ pairs' = SelectSeq(pairs, IsTruePair)
  /\ pc' = "finish"
  /\ UNCHANGED <<base, ours, theirs, listmode, state, diffs, tred, return_safe,
                 err, resolved, matchVars, applyVars, restVars>>

\* threeway, lines 632-644: return_safe is a list; pair up the redundant
\* diffs and fill return_safe instead of applying anything.
ThreewayReturnSafe ==
  /\ pc = "finish" /\ listmode
  /\ LET IsRedundantSafe(i) == i \in tred /\ i \in Range(dtheirs_safe)
         red == SortedSeq({i \in 1..Len(diffs.theirs.flat) : IsRedundantSafe(i)})
         safe_pairs_i == [c \in 1..Len(red) |-> [ours |-> {}, theirs |-> {red[c]}]]
         assoc == determine_association(diffs, state, safe_pairs_i, TRUE)
         all_safe == safe_pairs \o assoc.pairs
         OursAlone(i) == ~InSome(all_safe, "ours", i)
         TheirsAlone(i) == ~InSome(all_safe, "theirs", i)
         o1 == SelectSeq(dours_safe, OursAlone)
         t1 == SelectSeq(dtheirs_safe, TheirsAlone)
     IN IF assoc.err # ""
        THEN /\ err' = assoc.err
             /\ pc' = "raised"
             /\ UNCHANGED <<safe_pairs, return_safe>>
        ELSE /\ safe_pairs' = all_safe
             /\ return_safe' =
                  [c \in 1..Len(o1) |-> [ours |-> {o1[c]}, theirs |-> {}]]
                  \o [c \in 1..Len(t1) |-> [ours |-> {}, theirs |-> {t1[c]}]]
                  \o all_safe
             /\ pc' = "returned"
             /\ UNCHANGED err
  /\ UNCHANGED <<base, ours, theirs, listmode, state, diffs, tred, pairs,
                 dours_safe, dtheirs_safe, resolved, matchVars, applyVars, restVars>>

Tagged(side, seq) == [c \in 1..Len(seq) |-> <<side, seq[c]>>]

\* _flatten(safe_pairs): per pair its ours diffs, then its theirs diffs.
RECURSIVE flatten(_)
flatten(ps) ==
  IF ps = <<>> THEN <<>>
  ELSE Tagged("ours", SortedSeq(Head(ps).ours))
       \o Tagged("theirs", SortedSeq(Head(ps).theirs)) \o flatten(Tail(ps))

\* threeway, lines 645-648: apply the safe diffs to base.  The first list
\* handed to applylists is the generator _flatten(safe_pairs).
ThreewayApplySafe ==
  /\ pc = "finish" /\ ~listmode
  /\ LET r == applylists(diffs, state,
                <<flatten(safe_pairs), Tagged("ours", dours_safe),
                  Tagged("theirs", dtheirs_safe)>>, {1})
     IN /\ state' = r.st
        /\ IF r.raised # ""
           THEN err' = r.raised /\ pc' = "raised"
           ELSE IF r.conflicts # <<>>
           THEN err' = "unexpected: failed to apply safe diffs" /\ pc' = "raised"
           ELSE err' = err /\ pc' = "returned"
  /\ UNCHANGED <<base, ours, theirs, listmode, diffs, tred, pairs, dours_safe,
                 dtheirs_safe, safe_pairs, return_safe, resolved, matchVars, applyVars, restVars>>

\* Project.resolve_generic, lines 359-364: for the next conflict pair the
\* user keeps ours or theirs, and that side's diffs are applied.
ResolvePair ==
  /\ pc = "returned" /\ ~listmode
  /\ resolved < Len(pairs)
  /\ \E side \in {"ours", "theirs"} :
       LET r == applylists(diffs, state,
                  <<Tagged(side, SortedSeq(pairs[resolved + 1][side]))>>, {})
       IN /\ state' = r.st
          /\ IF r.raised # ""
             THEN err' = r.raised /\ pc' = "raised"
             ELSE IF r.conflicts # <<>>
             THEN err' = "failed to apply diffs" /\ pc' = "raised"
             ELSE err' = err /\ pc' = pc
  /\ resolved' = resolved + 1
  /\ UNCHANGED <<base, ours, theirs, listmode, diffs, tred, pairs, dours_safe,
                 dtheirs_safe, safe_pairs, return_safe, matchVars, applyVars, restVars>>

MergeNext ==
  \/ ThreewayDiff \/ ThreewayTrial \/ ThreewayClassify
  \/ ThreewayReturnSafe \/ ThreewayApplySafe \/ ResolvePair

SpecMerge == MergeInit /\ [][MergeNext]_vars

\* The same merge on pages whose base children are all equal: up to
\* MaxCopies copies of one item, which ours and theirs keep, change in v or
\* drop.
CopyItem == Item("a", 0, 0)
OursCopies == {CopyItem, Item("a", 1, 0)}
TheirsCopies == {CopyItem, Item("a", 1, 0), Item("a", 2, 0)}

MergeCopiesInit ==
  /\ base \in {[i \in 1..k |-> CopyItem] : k \in 0..MaxCopies}
  /\ ours \in SeqUpTo(OursCopies, MaxCopies)
  /\ theirs \in SeqUpTo(TheirsCopies, MaxCopies)
  /\ listmode \in BOOLEAN
  /\ pc = "diff"
  /\ state = PageState(base, ours, theirs)
  /\ diffs = NoDiffs
  /\ tred = {} /\ pairs = <<>> /\ dours_safe = <<>> /\ dtheirs_safe = <<>>
  /\ safe_pairs = <<>> /\ return_safe = <<>> /\ err = "" /\ resolved = 0
  /\ MatchIdle /\ ApplyIdle /\ RestIdle

SpecMergeCopies == MergeCopiesInit /\ [][MergeNext]_vars

\* ------------------------------- specification of diff followed by apply
\* applylists handed one list of Diffs, the top-level diffs of a side (line
\* 527 wraps it): the important diffs, then the unimportant ones.
applylists_one(D, st, side) ==
  LET first  == applylist(D, [st |-> st, conflicts |-> <<>>], side, 1, APPLY_IMPORTANT)
      second == applylist(D, [st |-> first.st, conflicts |-> <<>>], side, 1,
                          APPLY_UNIMPORTANT)
  IN [st |-> second.st, conflicts |-> first.conflicts,
      raised |-> IF second.conflicts # <<>>
                 THEN "unimportant diffs shouldn't conflict" ELSE ""]

\* The values of the children a page holds, in order.
CurrentChildren(st) == [p \in 1..Len(st.children) |-> st.obj[st.children[p]]]

Count(seq, x) == Cardinality({i \in 1..Len(seq) : Comparable_eq(seq[i], x)})

\* The page's __eq__: the same children, in any order.
Page_eq(s, t) ==
  /\ Len(s) = Len(t)
  /\ \A i \in 1..Len(s) : Count(s, s[i]) = Count(t, s[i])

\* a is base and b is ours; theirs stays empty.
ApplyInit ==
  /\ base \in SeqUpTo(BaseItems, MaxLen)
  /\ ours \in SeqUpTo(OursItems, MaxLen)
  /\ theirs = <<>>
  /\ listmode = FALSE
  /\ pc = "a_diff"
  /\ state = PageState(base, ours, theirs)
  /\ diffs = NoDiffs
  /\ tred = {} /\ pairs = <<>> /\ dours_safe = <<>> /\ dtheirs_safe = <<>>
  /\ safe_pairs = <<>> /\ return_safe = <<>> /\ err = "" /\ resolved = 0
  /\ MatchIdle /\ ApplyIdle /\ RestIdle

\* a.diff(b)
ApplyDiff ==
  /\ pc = "a_diff"
  /\ diffs' = [NoDiffs EXCEPT !.ours = difflists(base, ours, OursId)]
  /\ pc' = "a_apply"
  /\ UNCHANGED <<base, ours, theirs, listmode, state, tred, pairs, dours_safe,
                 dtheirs_safe, safe_pairs, return_safe, err, resolved, matchVars,
                 applyVars, restVars>>

\* applylists(a.diff(b))
ApplyLists ==
  /\ pc = "a_apply"
  /\ LET r == applylists_one(diffs, state, "ours")
     IN /\ state' = r.st
        /\ aconflicts' = r.conflicts
        /\ err' = r.raised
  /\ pc' = "a_done"
  /\ UNCHANGED <<base, ours, theirs, listmode, diffs, tred, pairs, dours_safe,
                 dtheirs_safe, safe_pairs, return_safe, resolved, matchVars,
                 restVars>>

ApplyNext == ApplyDiff \/ ApplyLists

SpecApply == ApplyInit /\ [][ApplyNext]_vars

\* ------------------------------------------------------------------ claims
\* The diff at position i of a side has taken effect on the page: an added
\* child is among the children, a removed child is not, a changed property
\* holds the new value.
Holds(e) ==
  IF e.newc # 0 THEN e.newc \in Range(state.children)
  ELSE IF e.rmc # 0 THEN e.rmc \notin Range(state.children)
  ELSE state.obj[e.tgt][e.key] = e.new

OtherSide(s) == IF s = "ours" THEN "theirs" ELSE "ours"

Important(s, i) == ~is_unimportant(diffs[s].flat[i], {})

\* C1: for pages a and b, applying every diff of a.diff(b) to a, the
\* important diffs first and then the unimportant ones, reports no conflict
\* and leaves a structurally equal to b.
C1_DiffApply ==
  pc = "a_done" =>
    /\ aconflicts = <<>>
    /\ err = ""
    /\ Page_eq(CurrentChildren(state), ours)

\* C2: when threeway is called with return_safe as a list, every leaf diff
\* of diff(base, ours) and of diff(base, theirs) is in exactly one entry of
\* return_safe and the returned conflict pairs together: never in two
\* entries and never in none.
C2_ExactlyOneEntry ==
  (pc = "returned" /\ listmode) =>
    \A s \in {"ours", "theirs"} : \A i \in 1..Len(diffs[s].flat) :
      Cardinality({e \in 1..Len(return_safe \o pairs) :
                     i \in (return_safe \o pairs)[e][s]}) = 1

\* C3: after threeway has applied the safe diffs, applying for every
\* returned conflict pair the diffs of one chosen side reports no conflict:
\* the caller never fails with 'failed to apply diffs'.
C3_ChosenSidesApply == err # "failed to apply diffs"

\* C4: applying all safe diffs threeway produced (the safe pairs and the
\* single-sided safe diffs, important before unimportant) to the unmodified
\* base reports no conflict, so threeway in auto-apply mode never raises
\* 'unexpected: failed to apply safe diffs' or "unimportant diffs shouldn't
\* conflict".
C4_SafeDiffsApply ==
  /\ err \notin {"unexpected: failed to apply safe diffs",
                 "unimportant diffs shouldn't conflict"}
  /\ pc = "finish" =>
       LET r == applylists(diffs, state,
                  <<flatten(safe_pairs), Tagged("ours", dours_safe),
                    Tagged("theirs", dtheirs_safe)>>, {})
       IN r.conflicts = <<>> /\ r.raised = ""
  /\ (pc = "returned" /\ listmode) =>
       LET r == applylists(diffs, state, <<flatten(return_safe)>>, {})
       IN r.conflicts = <<>> /\ r.raised = ""

\* A merge in auto-apply mode that applied a safe pair, a safe ours diff and
\* a safe theirs diff and changed base.
C4_Witness ==
  /\ pc = "returned" /\ ~listmode /\ err = ""
  /\ safe_pairs # <<>> /\ dours_safe # <<>> /\ dtheirs_safe # <<>>
  /\ CurrentChildren(state) # base

\* C5: if theirs is structurally equal to base, threeway in auto-apply mode
\* raises nothing, returns no conflict pair and leaves base structurally
\* equal to ours; if ours equals base too, there is no safe diff either and
\* base is unchanged.
C5_TheirsIsBase ==
  Page_eq(base, theirs) =>
    /\ err = ""
    /\ (pc = "returned" /\ ~listmode /\ resolved = 0) =>
         /\ pairs = <<>>
         /\ Page_eq(CurrentChildren(state), ours)
         /\ Page_eq(base, ours) =>
              /\ dours_safe = <<>> /\ dtheirs_safe = <<>> /\ safe_pairs = <<>>
              /\ CurrentChildren(state) = base

\* threeway has returned after applying two or more ours diffs to a base
\* that theirs left alone.
C5_Witness ==
  /\ pc = "returned" /\ ~listmode
  /\ Page_eq(base, theirs) /\ ~Page_eq(base, ours)
  /\ Len(diffs.ours.flat) >= 2
  /\ Page_eq(CurrentChildren(state), ours)

\* ours and theirs are base with property v of the child at one position
\* changed to two different values, and nothing else differs.
SameChildChanged ==
  /\ Len(ours) = Len(base) /\ Len(theirs) = Len(base)
  /\ \E i \in 1..Len(base) :
       /\ ours[i].v # base[i].v /\ theirs[i].v # base[i].v
       /\ ours[i].v # theirs[i].v
       /\ ours = [base EXCEPT ![i].v = ours[i].v]
       /\ theirs = [base EXCEPT ![i].v = theirs[i].v]

\* C6: when ours and theirs each change the same important property of the
\* same child to two different values and nothing else differs, threeway
\* raises nothing and returns exactly one conflict pair, whose ours side is
\* the ours modification and whose theirs side is the theirs modification;
\* no diff is safe, and base still holds the base value.
C6_OneConflictPair ==
  SameChildChanged =>
    /\ err = ""
    /\ (pc = "returned" /\ resolved = 0) =>
         /\ Len(diffs.ours.flat) = 1 /\ Len(diffs.theirs.flat) = 1
         /\ pairs = <<[ours |-> {1}, theirs |-> {1}]>>
         /\ diffs.ours.flat[1].key = "v" /\ diffs.theirs.flat[1].key = "v"
         /\ diffs.ours.flat[1].tgt # Page
         /\ diffs.ours.flat[1].tgt = diffs.theirs.flat[1].tgt
         /\ state.obj[diffs.ours.flat[1].tgt].v = diffs.ours.flat[1].old
         /\ return_safe = <<>>
         /\ CurrentChildren(state) = base

\* threeway has returned the conflict pair of two different changes of v.
C6_Witness ==
  /\ SameChildChanged /\ pc = "returned" /\ resolved = 0
  /\ Len(pairs) = 1 /\ Len(base) = 2

\* C7: in auto-apply mode threeway applies every safe diff to base: when it
\* returns, for every leaf diff not in a returned conflict pair, base holds
\* the diff's effect, or the effect of a diff of the other side on the same
\* target and key that is in the same safe pair.
C7_SafeDiffsApplied ==
  (pc = "returned" /\ ~listmode /\ resolved = 0) =>
    \A s \in {"ours", "theirs"} : \A i \in 1..Len(diffs[s].flat) :
      \/ InSome(pairs, s, i)
      \/ Holds(diffs[s].flat[i])
      \/ \E p \in 1..Len(safe_pairs) :
           /\ i \in safe_pairs[p][s]
           /\ \E j \in safe_pairs[p][OtherSide(s)] :
                /\ diffs[OtherSide(s)].flat[j].tgt = diffs[s].flat[i].tgt
                /\ diffs[OtherSide(s)].flat[j].key = diffs[s].flat[i].key
                /\ Holds(diffs[OtherSide(s)].flat[j])

\* C8: every conflict pair threeway returns holds an important diff on its
\* ours side and an important diff on its theirs side.
C8_PairsAreImportant ==
  pc \in {"finish", "returned", "raised"} =>
    \A p \in 1..Len(pairs) :
      /\ \E i \in pairs[p].ours : Important("ours", i)
      /\ \E i \in pairs[p].theirs : Important("theirs", i)

\* threeway has returned a conflict pair that also holds an unimportant
\* diff, after setting a pair of unimportant diffs aside as safe.
C8_Witness ==
  /\ pc = "returned" /\ safe_pairs # <<>>
  /\ \E p \in 1..Len(pairs) :
       \E s \in {"ours", "theirs"} : \E i \in pairs[p][s] : ~Important(s, i)

\* C9: matchlists on a list and an equal list in the same order matches
\* every base position i to other position i, with nothing removed and
\* nothing added.
C9_EqualListsMatch ==
  (mpc = "done" /\ mbase = mother) => mresult = [i \in 1..Len(mbase) |-> i]

\* The matcher has finished on two equal lists of two equal items.
C9_Witness ==
  /\ mpc = "done" /\ mbase = mother
  /\ Len(mbase) = 2 /\ mbase[1] = mbase[2]

\* C10: matchlists never pairs a base item with an other item it is
\* disparate from; a base item disparate from every other item is reported
\* removed and an other item disparate from every base item is reported
\* added.  For base children (a 1), (b 0) and other children (a 1), (c 0)
\* difflists yields the addition of (c 0) and the removal of (b 0) and
\* nothing else.
C10_NoDisparateMatch ==
  mpc = "done" =>
    /\ Len(mresult) >= Len(mbase)
    /\ \A i \in 1..Len(mbase) :
         /\ mresult[i] # None =>
              distance(mbase[i], mother[mresult[i]], FALSE) # None
         /\ (\A j \in 1..Len(mother) :
               distance(mbase[i], mother[j], FALSE) = None) => mresult[i] = None
    /\ \A j \in 1..Len(mother) :
         (\A i \in 1..Len(mbase) : distance(mbase[i], mother[j], FALSE) = None)
           => \E q \in (Len(mbase) + 1)..Len(mresult) : mresult[q] = j
    /\ (mbase = <<Item("a", 1, 0), Item("b", 0, 0)>>
        /\ mother = <<Item("a", 1, 0), Item("c", 0, 0)>>) =>
         /\ mresult = <<1, None, 2>>
         /\ difflists(mbase, mother, OursId).flat =
              <<AddDiff(OursId + 2), RmDiff(2, Item("b", 0, 0))>>

\* The matcher has finished on (a 1), (b 0) against (a 1), (c 0).
C10_Witness ==
  /\ mpc = "done"
  /\ mbase = <<Item("a", 1, 0), Item("b", 0, 0)>>
  /\ mother = <<Item("a", 1, 0), Item("c", 0, 0)>>
  /\ mresult = <<1, None, 2>>


\* ---------------------------------------------------------------------------
\* sexp.py: the s-expression parser and printer.  Text is a sequence of
\* one-character strings.
\* ---------------------------------------------------------------------------

Digits == <<"0", "1", "2", "3", "4", "5", "6", "7", "8", "9">>

IsDigit(c) == \E d \in 1..10 : Digits[d] = c

DigitVal(c) == (CHOOSE d \in 1..10 : Digits[d] = c) - 1

Whitespace == {" ", "\n", "\t"}

\* The value of a run of digits.
RECURSIVE DigitsValue(_)
DigitsValue(s) ==
  IF s = <<>> THEN 0
  ELSE 10 * DigitsValue(SubSeq(s, 1, Len(s) - 1)) + DigitVal(s[Len(s)])

\* int(a[0]): an optional sign and digits, to a number.
int(s) ==
  IF s[1] = "-" THEN 0 - DigitsValue(Tail(s))
  ELSE IF s[1] = "+" THEN DigitsValue(Tail(s))
  ELSE DigitsValue(s)

RECURSIVE NatStr(_)
NatStr(n) ==
  IF n < 10 THEN <<Digits[n + 1]>>
  ELSE NatStr(n \div 10) \o <<Digits[(n % 10) + 1]>>

\* str(data) of an int.
str_int(n) == IF n < 0 THEN <<"-">> \o NatStr(0 - n) ELSE NatStr(n)

\* The first position at or after p of s that holds no digit.
RECURSIVE DigitsEnd(_, _)
DigitsEnd(s, p) ==
  IF p <= Len(s) /\ IsDigit(s[p]) THEN DigitsEnd(s, p + 1) ELSE p

\* The first alternative of INT_DEC_ATOM_RE on the text s, which its lookahead
\* makes run up to the next ")" or whitespace: the positions where the
\* integer, the fraction and the exponent end; ok when all of s is a number.
NumEnds(s, p0, p1) ==
  LET frac == p1 <= Len(s) /\ s[p1] = "." /\ DigitsEnd(s, p1 + 1) > p1 + 1
      p2 == IF frac THEN DigitsEnd(s, p1 + 1) ELSE p1
      hase == p2 <= Len(s) /\ s[p2] \in {"e", "E"}
      q == IF hase /\ p2 + 1 <= Len(s) /\ s[p2 + 1] \in {"+", "-"}
           THEN p2 + 2 ELSE p2 + 1
      exp == hase /\ DigitsEnd(s, q) > q
      p3 == IF exp THEN DigitsEnd(s, q) ELSE p2
  IN [ok |-> p1 > p0 /\ p3 = Len(s) + 1, p0 |-> p0, p1 |-> p1, p2 |-> p2,
      p3 |-> p3]

NumMatch(s) ==
  LET p0 == IF s # <<>> /\ s[1] \in {"+", "-"} THEN 2 ELSE 1
  IN NumEnds(s, p0, DigitsEnd(s, p0))

\* Decimal(a[0] + a[1]): sign, coefficient digits without leading zeros, and
\* exponent, as decimal.Decimal keeps them.
Decimal(s) ==
  LET m == NumMatch(s)
      intpart == SubSeq(s, m.p0, m.p1 - 1)
      fracpart == IF m.p2 > m.p1 THEN SubSeq(s, m.p1 + 1, m.p2 - 1) ELSE <<>>
      e == IF m.p3 > m.p2 THEN int(SubSeq(s, m.p2 + 1, m.p3 - 1)) ELSE 0
  IN [neg |-> s[1] = "-", digits |-> NatStr(DigitsValue(intpart \o fracpart)),
      exp |-> e - Len(fracpart)]

Zeros(n) == [k \in 1..n |-> "0"]

\* str(data) of a Decimal (decimal.Decimal.__str__).
str_Decimal(d) ==
  LET leftdigits == d.exp + Len(d.digits)
      dotplace == IF d.exp <= 0 /\ leftdigits > 0 - 6 THEN leftdigits ELSE 1
      intpart == IF dotplace <= 0 THEN <<"0">>
                 ELSE IF dotplace >= Len(d.digits)
                      THEN d.digits \o Zeros(dotplace - Len(d.digits))
                      ELSE SubSeq(d.digits, 1, dotplace)
      fracpart == IF dotplace <= 0
                  THEN <<".">> \o Zeros(0 - dotplace) \o d.digits
                  ELSE IF dotplace >= Len(d.digits) THEN <<>>
                       ELSE <<".">> \o SubSeq(d.digits, dotplace + 1, Len(d.digits))
      e == leftdigits - dotplace
      exp == IF e = 0 THEN <<>>
             ELSE <<"E">> \o (IF e > 0 THEN <<"+">> ELSE <<>>) \o str_int(e)
  IN (IF d.neg THEN <<"-">> ELSE <<>>) \o intpart \o fracpart \o exp


\* The values of a tree: Atom, int, Decimal, str, and SExp (a node, v its
\* ordered children).
AtomV(t) == [k |-> "atom", v |-> t]
IntV(n) == [k |-> "int", v |-> n]
DecV(d) == [k |-> "dec", v |-> d]
StrV(t) == [k |-> "str", v |-> t]
NodeV(items) == [k |-> "node", v |-> items]

\* LITERAL_RE.match(data, i) with the opening quote at p - 1: the position of
\* the closing quote, 0 when the pattern does not match.  A backslash takes
\* the next character with it, unless that is a newline or the end.
RECURSIVE LitEnd(_, _)
LitEnd(data, p) ==
  IF p > Len(data) THEN 0
  ELSE IF data[p] = "\"" THEN p
  ELSE IF data[p] = "\\"
       THEN IF p + 1 <= Len(data) /\ data[p + 1] # "\n"
            THEN LitEnd(data, p + 2) ELSE 0
  ELSE LitEnd(data, p + 1)

\* BACKSLASH_RE.sub(backslash_sub, literal[1:-1])
RECURSIVE backslash_sub(_)
backslash_sub(t) ==
  IF t = <<>> THEN <<>>
  ELSE IF t[1] = "\\" /\ Len(t) >= 2 /\ t[2] # "\n"
       THEN <<IF t[2] = "n" THEN "\n" ELSE t[2]>>
            \o backslash_sub(SubSeq(t, 3, Len(t)))
  ELSE <<t[1]>> \o backslash_sub(Tail(t))

\* The first position at or after p of data that holds one of the characters
\* of stop.
RunEnd(data, p, stop) ==
  LET S == {q \in p..Len(data) : data[q] \in stop}
  IN IF S = {} THEN Len(data) + 1 ELSE Min(S)

\* INT_DEC_ATOM_RE.match(data, i): the value and the end of the match.
INT_DEC_ATOM(data, i) ==
  LET num == SubSeq(data, i, RunEnd(data, i, Whitespace \cup {")"}) - 1)
      m == NumMatch(num)
      aend == RunEnd(data, i, Whitespace \cup {"(", ")", "\"", "'"})
  IN IF m.ok
     THEN [end |-> i + Len(num),
           val |-> IF m.p3 > m.p1 THEN DecV(Decimal(num)) ELSE IntV(int(num))]
     ELSE [end |-> aend, val |-> AtomV(SubSeq(data, i, aend - 1))]

ParseError(e) == [err |-> e, tree |-> <<>>]

Push(stack, item) ==
  [stack EXCEPT ![Len(stack)] = Append(stack[Len(stack)], item)]

\* The loop of parse, from position i with the given stack of open lists.
RECURSIVE ParseLoop(_, _, _)
ParseLoop(data, i, stack) ==
  IF i > Len(data) THEN [err |-> "", tree |-> stack[Len(stack)]]
  ELSE IF data[i] = "("
       THEN ParseLoop(data, i + 1, Append(stack, <<>>))
  ELSE IF data[i] = ")"
       THEN IF Len(stack) < 2 THEN ParseError("IndexError")
            ELSE ParseLoop(data, i + 1,
                           Push(SubSeq(stack, 1, Len(stack) - 1),
                                NodeV(stack[Len(stack)])))
  ELSE IF data[i] \in Whitespace THEN ParseLoop(data, i + 1, stack)
  ELSE IF data[i] = "\""
       THEN LET e == LitEnd(data, i + 1)
            IN IF e = 0 THEN ParseError("AttributeError")
               ELSE IF \E q \in i..e : data[q] = "\n"
                    THEN ParseError("BadStringError")
               ELSE ParseLoop(data, e + 1,
                              Push(stack, StrV(backslash_sub(SubSeq(data, i + 1, e - 1)))))
  ELSE IF data[i] = "'" THEN ParseError("AttributeError")
  ELSE LET a == INT_DEC_ATOM(data, i)
       IN ParseLoop(data, a.end, Push(stack, a.val))

parse(data) == ParseLoop(data, 1, <<<<>>>>)


xy_special_case_column_limit == 99
consecutive_token_wrap_threshold == 72

Tabs(n) == [k \in 1..n |-> "\t"]

\* txt.replace("\\", "\\\\").replace('"', '\\"').replace("\n", "\\n")
RECURSIVE Escape(_)
Escape(t) ==
  IF t = <<>> THEN <<>>
  ELSE (IF t[1] = "\\" THEN <<"\\", "\\">>
        ELSE IF t[1] = "\"" THEN <<"\\", "\"">>
        ELSE IF t[1] = "\n" THEN <<"\\", "n">>
        ELSE <<t[1]>>) \o Escape(Tail(t))

\* The text dump writes for a value that is no node.
Txt(data) ==
  IF data.k = "atom" THEN data.v
  ELSE IF data.k = "int" THEN str_int(data.v)
  ELSE IF data.k = "dec" THEN str_Decimal(data.v)
  ELSE <<"\"">> \o Escape(data.v) \o <<"\"">>

AddToLast(out, t) == [out EXCEPT ![Len(out)] = out[Len(out)] \o t]

EndsWith(line, c) == line # <<>> /\ line[Len(line)] = c

\* dump, on reaching the end of a block.
DumpEnd(stack, out, ml) ==
  IF ml \/ EndsWith(out[Len(out)], ")")
  THEN Append(out, Tabs(Len(stack)) \o <<")">>)
  ELSE AddToLast(out, <<")">>)

\* dump, writing the text of a value: on the current line, or on a line of
\* its own once the current one has reached the wrap threshold.
DumpTxt(stack, out, in_xy, txt) ==
  IF in_xy \/ Len(out[Len(out)]) < consecutive_token_wrap_threshold
  THEN [out |-> IF EndsWith(out[Len(out)], "(") THEN AddToLast(out, txt)
                ELSE AddToLast(out, <<" ">> \o txt),
        ml |-> FALSE]
  ELSE [out |-> Append(out, Tabs(Len(stack)) \o txt), ml |-> TRUE]

\* The loop of dump: stack holds what is left of each open block, out the
\* lines written so far.  The result is the lines, or <<>> after an error.
RECURSIVE DumpLoop(_, _, _, _)
DumpLoop(stack, out, ml, in_xy) ==
  IF stack = <<>> THEN out
  ELSE LET n == Len(stack)
           top == stack[n]
           below == SubSeq(stack, 1, n - 1)
       IN IF top = <<>>
          THEN DumpLoop(below, DumpEnd(below, out, ml), FALSE, in_xy)
          ELSE IF top[1].k = "node"
          THEN DumpLoop(Append(Append(below, Tail(top)), top[1].v),
                        Append(out, Tabs(n) \o <<"(">>), ml, in_xy)
          ELSE IF top[1].k = "atom"
          THEN LET now_xy == top[1].v = <<"x", "y">>
                   chain == now_xy /\ in_xy
               IN IF chain /\ Len(out) < 2 THEN <<>>
                  ELSE LET o == IF chain /\ Len(out[Len(out) - 1])
                                             < xy_special_case_column_limit
                                THEN AddToLast(SubSeq(out, 1, Len(out) - 1),
                                               <<" ", "(">>)
                                ELSE out
                           w == DumpTxt(stack, o, now_xy, Txt(top[1]))
                       IN DumpLoop(Append(below, Tail(top)), w.out,
                                   ml \/ w.ml, now_xy)
          ELSE LET w == DumpTxt(stack, out, in_xy, Txt(top[1]))
               IN DumpLoop(Append(below, Tail(top)), w.out, ml \/ w.ml, in_xy)

\* "\n".join(out)
RECURSIVE Join(_)
Join(out) ==
  IF out = <<>> THEN <<>>
  ELSE IF Len(out) = 1 THEN out[1]
  ELSE out[1] \o <<"\n">> \o Join(Tail(out))

\* dump(data) of a node or list, given by its children.
dump(items) == Join(DumpLoop(<<items>>, <<<<"(">>>>, FALSE, FALSE))


\* --- A file is parsed and its top node is printed again --------------------

MaxTokens == 2

\* The written forms of the values a node of an input file may hold:
\* integers and decimals (with a sign, leading zeros, trailing zeros, an
\* exponent), strings with the three escapes the printer writes, an atom.
Lexemes ==
  { <<"1">>, <<"-", "2">>, <<"0", "0", "7">>, <<"+", "1">>,
    <<"2", ".", "5", "0">>, <<"-", "0", ".", "5">>, <<"1", "e", "5">>,
    <<"0", "2", ".", "5">>,
    <<"\"", "x", "\"">>, <<"\"", "a", "\\", "\\", "b", "\"">>,
    <<"\"", "q", "\\", "\"", "\"">>, <<"\"", "l", "\\", "n", "\"">>,
    <<"b">> }

\* The tokens of one line, each after a space.
RECURSIVE Spaced(_)
Spaced(toks) ==
  IF toks = <<>> THEN <<>> ELSE <<" ">> \o toks[1] \o Spaced(Tail(toks))

\* A file in the layout dump writes: the node (a toks...), with the child
\* nodes (b tok) each on a line of its own, one tab deep, and then the
\* closing parenthesis on its own line.
RECURSIVE ChildLines(_)
ChildLines(kids) ==
  IF kids = <<>> THEN <<>>
  ELSE <<"\n", "\t", "(", "b", " ">> \o kids[1] \o <<")">> \o ChildLines(Tail(kids))

Written(toks, kids) ==
  <<"(", "a">> \o Spaced(toks) \o ChildLines(kids)
  \o (IF kids = <<>> THEN <<")">> ELSE <<"\n", ")">>)

\* The input as it reaches parse: whole, cut before its last closing
\* parenthesis, or with one closing parenthesis too many.
Damaged(f, kind) ==
  IF kind = "unclosed" THEN SubSeq(f, 1, Len(f) - 1)
  ELSE IF kind = "unmatched" THEN f \o <<")">>
  ELSE f

SexpInit ==
  /\ \E toks \in SeqUpTo(Lexemes, MaxTokens), kids \in SeqUpTo(Lexemes, 1),
        kind \in {"whole", "unclosed", "unmatched"} :
       sx = [pc |-> "parse", kind |-> kind,
             data |-> Damaged(Written(toks, kids), kind),
             err |-> "", tree |-> <<>>, out |-> <<>>]
  /\ nd = Idle /\ vt = Idle /\ nb = Idle /\ kp = Idle /\ hu = Idle
  /\ MatchIdle /\ MergeIdle /\ ApplyIdle /\ pd = Idle /\ ui = Idle

\* data = sexp.parse(f): the tree, or the exception parse raised.
SexpParse ==
  /\ sx.pc = "parse"
  /\ LET r == parse(sx.data)
     IN sx' = [sx EXCEPT !.pc = IF r.err = "" THEN "parsed" ELSE "raised",
                         !.err = r.err, !.tree = r.tree]
  /\ UNCHANGED <<nd, vt, nb, kp, hu, matchVars, mergeVars, applyVars,
                 pd, ui>>

\* sexp.dump(data[0]): the top node of the parsed file is printed.
SexpDump ==
  /\ sx.pc = "parsed"
  /\ sx.tree # <<>> /\ sx.tree[1].k = "node"
  /\ sx' = [sx EXCEPT !.pc = "dumped", !.out = dump(sx.tree[1].v)]
  /\ UNCHANGED <<nd, vt, nb, kp, hu, matchVars, mergeVars, applyVars,
                 pd, ui>>

SexpNext == SexpParse \/ SexpDump

SpecSexp == SexpInit /\ [][SexpNext]_vars

\* C11: a file written in the printer's layout is printed back byte for
\* byte after parsing: numbers keep their written form (sign, leading and
\* trailing zeros, exponent), strings are escaped to the same bytes, and
\* children keep their order.
C11_RoundTrip ==
  (sx.pc = "dumped" /\ sx.kind = "whole") => sx.out = sx.data


\* C13: parse returns a tree only when the parentheses of its input are
\* balanced: a closing parenthesis with no open list and an open list never
\* closed both end in an error, with no tree returned.
C13_BalancedOnly ==
  /\ sx.pc = "parsed" => sx.kind = "whole"
  /\ sx.pc = "raised" => sx.tree = <<>>


\* --- SExp: a node, its ordered children and its two indexes ----------------

MaxKids == 2
MaxAdds == 2

NodeTypes == {"p", "q"}

\* A child: the atom t, or a child node of type t with content c; id tells
\* apart two child nodes that are equal.
AtomChild(t) == [k |-> "atom", t |-> t, c |-> 0, id |-> 0]
NodeChild(t, c, id) == [k |-> "node", t |-> t, c |-> c, id |-> id]

\* SExp.__eq__: children are equal when their contents are.
SExp_eq(x, y) == x.k = y.k /\ x.t = y.t /\ x.c = y.c

\* The child lists a node is built from: its atoms and nodes, the nodes
\* numbered by position.
InitialChildren ==
  { [j \in 1..Len(q) |-> IF q[j].k = "atom" THEN AtomChild(q[j].t)
                         ELSE NodeChild(q[j].t, q[j].c, j)] :
    q \in SeqUpTo([k : {"atom", "node"}, t : NodeTypes, c : {0}], MaxKids) }

\* SExp.__init__: the indexes of a child list.  _subs maps a type to the
\* list of the child nodes of that type, _atoms an atom to its count.
SExp_subs(sexp) ==
  [t \in {sexp[j].t : j \in {j \in 1..Len(sexp) : sexp[j].k = "node"}} |->
     LET OfType(x) == x.k = "node" /\ x.t = t IN SelectSeq(sexp, OfType)]

SExp_atoms(sexp) ==
  [t \in {sexp[j].t : j \in {j \in 1..Len(sexp) : sexp[j].k = "atom"}} |->
     LET IsAtom(x) == x.k = "atom" /\ x.t = t IN Len(SelectSeq(sexp, IsAtom))]

\* SExp.__contains__
SExp_contains(n, atm) == atm \in DOMAIN n.subs \/ atm \in DOMAIN n.atoms

\* self.sexp.index(x, i) finds x at or after the position i (from 0).
IndexFinds(sexp, x, i) == \E j \in (i + 1)..Len(sexp) : SExp_eq(sexp[j], x)

InsertAt(q, j, x) == SubSeq(q, 1, j) \o <<x>> \o SubSeq(q, j + 1, Len(q))

\* SExp.add, the sub list: item goes after the last entry of subs that is
\* not found at or after i, at the front if all are.
AddToSubs(sexp, subs, item, i) ==
  LET before == {j \in 1..Len(subs) : ~IndexFinds(sexp, subs[j], i)}
  IN InsertAt(subs, IF before = {} THEN 0 ELSE CHOOSE j \in before :
                                                  \A h \in before : h <= j,
              item)

\* SExp.add(item, i) as far as it gets: the index of the item's kind is
\* updated, and then self.sexp.insert(i), called with one argument, raises
\* TypeError, so that the sequence is left as it was.
SExp_add(n, item, i) ==
  LET at == IF i = None \/ i = 0 THEN Len(n.sexp) ELSE i
      old == IF item.t \in DOMAIN n.subs THEN n.subs[item.t] ELSE <<>>
      cnt == IF item.t \in DOMAIN n.atoms THEN n.atoms[item.t] ELSE 0
  IN [n EXCEPT
        !.subs = IF item.k = "node"
                 THEN [t \in DOMAIN n.subs \cup {item.t} |->
                         IF t = item.t THEN AddToSubs(n.sexp, old, item, at)
                         ELSE n.subs[t]]
                 ELSE @,
        !.atoms = IF item.k = "atom"
                  THEN [t \in DOMAIN n.atoms \cup {item.t} |->
                          IF t = item.t THEN cnt + 1 ELSE n.atoms[t]]
                  ELSE @,
        !.raised = "TypeError"]

\* is_atom(s, atoms) of a child: a child node is neither a list nor an Atom.
is_atom(x, atoms) == x.k = "atom" /\ (atoms = "" \/ x.t = atoms)

\* The predicates handed to remove as func: none, every child, the child
\* nodes of one type.
Funcs == {"", "any"} \cup NodeTypes

FuncHolds(func, x) == func \in {"", "any"} \/ (x.k = "node" /\ x.t = func)

\* SExp.remove, the child at position j (from 1) of the sequence.
RemoveChild(n, j) ==
  LET x == n.sexp[j]
  IN [n EXCEPT
        !.subs = IF x.k = "node" /\ x.t \in DOMAIN n.subs
                 THEN [n.subs EXCEPT ![x.t] =
                         LET Other(y) == y.id # x.id IN SelectSeq(@, Other)]
                 ELSE @,
        !.atoms = IF x.k = "atom"
                  THEN IF n.atoms[x.t] = 1
                       THEN [t \in DOMAIN n.atoms \ {x.t} |-> n.atoms[t]]
                       ELSE [n.atoms EXCEPT ![x.t] = @ - 1]
                  ELSE @,
        !.sexp = RemoveAt(n.sexp, j)]

\* SExp.remove(atoms, func): the loop from the last child down to j.
RECURSIVE RemoveLoop(_, _, _, _)
RemoveLoop(n, atoms, func, j) ==
  IF j = 0 THEN n
  ELSE IF (atoms = "" \/ is_atom(n.sexp[j], atoms)) /\ FuncHolds(func, n.sexp[j])
       THEN RemoveLoop(RemoveChild(n, j), atoms, func, j - 1)
       ELSE RemoveLoop(n, atoms, func, j - 1)

SExp_remove(n, atoms, func) ==
  IF atoms = "" /\ func = "" THEN [n EXCEPT !.raised = ""]
  ELSE RemoveLoop([n EXCEPT !.raised = ""], atoms, func, Len(n.sexp))


NodeInit ==
  /\ \E sexp \in InitialChildren :
       nd = [pc |-> "node", sexp |-> sexp, subs |-> SExp_subs(sexp),
             atoms |-> SExp_atoms(sexp), raised |-> "", adds |-> 0,
             called |-> "init"]
  /\ sx = Idle /\ vt = Idle /\ nb = Idle /\ kp = Idle /\ hu = Idle
  /\ MatchIdle /\ MergeIdle /\ ApplyIdle /\ pd = Idle /\ ui = Idle

\* node.add(item, i) with a new atom or a new child node.
NodeAdd ==
  /\ nd.pc = "node" /\ nd.adds < MaxAdds
  /\ \E t \in NodeTypes, i \in {None} \cup 0..Len(nd.sexp) :
     \E item \in {AtomChild(t), NodeChild(t, 0, MaxKids + nd.adds + 1)} :
       nd' = [SExp_add(nd, item, i) EXCEPT !.adds = @ + 1, !.called = "add"]
  /\ UNCHANGED <<sx, vt, nb, kp, hu, matchVars, mergeVars, applyVars,
                 pd, ui>>

\* node.remove(atoms, func)
NodeRemove ==
  /\ nd.pc = "node"
  /\ \E atoms \in {""} \cup NodeTypes, func \in Funcs :
       nd' = [SExp_remove(nd, atoms, func) EXCEPT !.called = "remove"]
  /\ UNCHANGED <<sx, vt, nb, kp, hu, matchVars, mergeVars, applyVars,
                 pd, ui>>

NodeNext == NodeAdd \/ NodeRemove

SpecNode == NodeInit /\ [][NodeNext]_vars

\* C12: after any sequence of add and remove calls the indexes of a node
\* agree with its ordered children: the list of each type holds exactly the
\* child nodes of that type in order, the count of each atom is its number
\* of occurrences, and contains(t) holds exactly when a child is the atom t
\* or a child node has the type t.
C12_IndexesAgree ==
  nd.pc = "node" =>
    \A t \in NodeTypes :
      /\ (IF t \in DOMAIN nd.subs THEN nd.subs[t] ELSE <<>>)
           = (LET OfType(x) == x.k = "node" /\ x.t = t
              IN SelectSeq(nd.sexp, OfType))
      /\ (IF t \in DOMAIN nd.atoms THEN nd.atoms[t] ELSE 0)
           = (LET IsAtom(x) == x.k = "atom" /\ x.t = t
              IN Len(SelectSeq(nd.sexp, IsAtom)))
      /\ SExp_contains(nd, t) <=> \E j \in 1..Len(nd.sexp) : nd.sexp[j].t = t


\* ---------------------------------------------------------------------------
\* kicad_common.py: Variables, the table of text variables.  Names, contexts
\* and texts are sequences of characters; a context is "" (global) or a path
\* of elements each after a "/".  The contexts of the model are shorter than
\* the 36 characters _resolve_context treats as a bare sheet identity.
\* ---------------------------------------------------------------------------

\* str.upper() on the letters of the model.
upper(t) ==
  [j \in 1..Len(t) |-> IF t[j] = "a" THEN "A" ELSE IF t[j] = "b" THEN "B" ELSE t[j]]

\* vardict.get(variable, vardict.get(variable.upper())): <<value>>, or <<>>
\* for None.
Lookup(vardict, variable) ==
  IF variable \in DOMAIN vardict THEN <<vardict[variable]>>
  ELSE IF upper(variable) \in DOMAIN vardict THEN <<vardict[upper(variable)]>>
  ELSE <<>>

\* self._contexts.get(context, {})
Vardict(C, context) == IF context \in DOMAIN C THEN C[context] ELSE <<>>

\* Variables.define(context, variable, value), value not None.
Variables_define(C, context, variable, value) ==
  LET old == Vardict(C, context)
      set == [n \in DOMAIN old \cup {variable} |->
                IF n = variable THEN value ELSE old[n]]
      dflt == [n \in DOMAIN set \cup {upper(variable)} |->
                 IF n \in DOMAIN set THEN set[n] ELSE value]
  IN [c \in DOMAIN C \cup {context} |-> IF c = context THEN dflt ELSE C[c]]

\* A walk that goes from any context straight to the global one.
rpartition0_global(context) == <<>>

\* context.rpartition("/")[0]
rpartition0(context) ==
  LET S == {k \in 1..Len(context) : context[k] = "/"}
  IN IF S = {} THEN <<>>
     ELSE SubSeq(context, 1, (CHOOSE k \in S : \A j \in S : j <= k) - 1)

\* RE_VAR matched at position p of text: "${", an optional context before a
\* colon, the variable, "}".
RE_VAR_at(text, p) ==
  LET close == RunEnd(text, p + 2, {"}"})
      inner == SubSeq(text, p + 2, close - 1)
      colon == RunEnd(inner, 1, {":"})
      hasctx == 1 < colon /\ colon < Len(inner)
  IN IF p + 1 <= Len(text) /\ text[p] = "$" /\ text[p + 1] = "{"
        /\ close <= Len(text) /\ inner # <<>>
     THEN [ok |-> TRUE, end |-> close, hasctx |-> hasctx,
           ctx |-> IF hasctx THEN SubSeq(inner, 1, colon - 1) ELSE <<>>,
           var |-> IF hasctx THEN SubSeq(inner, colon + 1, Len(inner)) ELSE inner]
     ELSE [ok |-> FALSE, end |-> 0, hasctx |-> FALSE, ctx |-> <<>>, var |-> <<>>]

\* The position of the first match of RE_VAR at or after p, Len(text) + 1 if
\* there is none.
RE_VAR_search(text, p) ==
  LET S == {q \in p..Len(text) : RE_VAR_at(text, q).ok}
  IN IF S = {} THEN Len(text) + 1 ELSE Min(S)

\* The contexts the loop of resolve visits, in order: the context, then what
\* rpartition leaves of the one before, down to the global context.
Visited(context) ==
  LET up[k \in 0..Len(context)] ==
        IF k = 0 THEN context ELSE rpartition0(up[k - 1])
      last == Min({k \in 0..Len(context) : up[k] = <<>>})
  IN [k \in 1..(last + 1) |-> up[k - 1]]

MaxDefines == 2
\* No call nests deeper: every nested expand follows a new entry of hist.
MaxDepth == 8

Ref(name) == <<"$", "{">> \o name \o <<"}">>

VarNames == {<<"A">>, <<"a">>, <<"B">>}
VarValues ==
  {<<"1">>, <<"2">>, Ref(<<"A">>), Ref(<<"B">>), Ref(<<"A">>) \o Ref(<<"A">>)}
DefContexts == {<<>>, <<"/", "s">>}
CallContexts == DefContexts \cup {<<"/", "s", "/", "t">>}
CallTexts ==
  {Ref(<<"A">>), Ref(<<"a">>), Ref(<<"B">>) \o Ref(<<"A">>),
   Ref(<<"/", "s", ":", "A">>)}


\* The walk of resolve and the search of RE_VAR on the contexts and texts
\* of the model, worked out once.
VisitedOf == [c \in CallContexts |-> Visited(c)]

RE_VAR_next ==
  [t \in CallTexts \cup VarValues |->
     [p \in 1..(Len(t) + 1) |->
        LET q == RE_VAR_search(t, p)
        IN [at |-> q, m |-> RE_VAR_at(t, q)]]]

\* The loop of resolve without its history: a context is looked up again
\* however often it has been visited.
ResolveWalk_nohist(C, context, variable, hist) ==
  LET scopes == VisitedOf[context]
      hits == {k \in 1..Len(scopes) : Lookup(Vardict(C, scopes[k]), variable) # <<>>}
  IN IF hits = {}
     THEN [found |-> FALSE, context |-> <<>>, value |-> <<>>, hist |-> hist]
     ELSE [found |-> TRUE, context |-> scopes[Min(hits)],
           value |-> Lookup(Vardict(C, scopes[Min(hits)]), variable)[1],
           hist |-> hist]

\* The loop of Variables.resolve: from context up to the global one, the
\* first context that is not yet in hist with the variable and that defines
\* it; every context looked at on the way enters hist.
ResolveWalk(C, context, variable, hist) ==
  LET scopes == VisitedOf[context]
      hits == {k \in 1..Len(scopes) :
                 /\ <<scopes[k], variable>> \notin hist
                 /\ Lookup(Vardict(C, scopes[k]), variable) # <<>>}
      upto == IF hits = {} THEN Len(scopes) ELSE Min(hits)
      h == hist \cup {<<scopes[k], variable>> : k \in 1..upto}
  IN IF hits = {}
     THEN [found |-> FALSE, context |-> <<>>, value |-> <<>>, hist |-> h]
     ELSE [found |-> TRUE, context |-> scopes[upto],
           value |-> Lookup(Vardict(C, scopes[upto]), variable)[1], hist |-> h]

NoResult == [none |-> TRUE, text |-> <<>>]

VarsInit ==
  /\ vt = [pc |-> "ready", C |-> <<>>, defs |-> <<>>,
           call |-> [op |-> "", context |-> <<>>, arg |-> <<>>],
           stack |-> <<>>, hist |-> {}, res |-> NoResult]
  /\ sx = Idle /\ nd = Idle /\ nb = Idle /\ kp = Idle /\ hu = Idle
  /\ MatchIdle /\ MergeIdle /\ ApplyIdle /\ pd = Idle /\ ui = Idle

\* variables.define(context, variable, value)
VarsDefine ==
  /\ vt.pc = "ready" /\ Len(vt.defs) < MaxDefines
  /\ \E context \in DefContexts, variable \in VarNames, value \in VarValues :
       vt' = [vt EXCEPT
                !.C = Variables_define(@, context, variable, value),
                !.defs = Append(@, [context |-> context, variable |-> variable,
                                    value |-> value])]
  /\ UNCHANGED <<sx, nd, nb, kp, hu, matchVars, mergeVars, applyVars,
                 pd, ui>>

Frame(context, text) == [context |-> context, text |-> text, pos |-> 1, out |-> <<>>]

\* variables.expand(context, text) is called: RE_VAR.sub starts on text.
VarsExpandCall ==
  /\ vt.pc = "ready"
  /\ \E context \in CallContexts, text \in CallTexts :
       vt' = [vt EXCEPT !.pc = "running",
                        !.call = [op |-> "expand", context |-> context, arg |-> text],
                        !.stack = <<Frame(context, text)>>, !.hist = {}]
  /\ UNCHANGED <<sx, nd, nb, kp, hu, matchVars, mergeVars, applyVars,
                 pd, ui>>

\* variables.resolve(context, variable) is called with a name: the walk up
\* the contexts, and then the expansion of the value found, or None.
VarsResolveCall ==
  /\ vt.pc = "ready"
  /\ \E context \in CallContexts, variable \in VarNames :
       LET w == ResolveWalk(vt.C, context, variable, {})
       IN vt' = [vt EXCEPT
                   !.pc = IF w.found THEN "running" ELSE "done",
                   !.call = [op |-> "resolve", context |-> context, arg |-> variable],
                   !.stack = IF w.found THEN <<Frame(w.context, w.value)>> ELSE <<>>,
                   !.hist = w.hist, !.res = NoResult]
  /\ UNCHANGED <<sx, nd, nb, kp, hu, matchVars, mergeVars, applyVars,
                 pd, ui>>

\* The expand on top of the stack has no reference left: it returns its text
\* to the resolve that called it, which returns it to the expand below.
VarsReturn ==
  /\ vt.pc = "running"
  /\ LET n == Len(vt.stack)
         f == vt.stack[n]
         text == f.out \o SubSeq(f.text, f.pos, Len(f.text))
     IN /\ RE_VAR_next[f.text][f.pos].at > Len(f.text)
        /\ vt' = IF n = 1
                 THEN [vt EXCEPT !.pc = "done", !.stack = <<>>,
                                 !.res = [none |-> FALSE, text |-> text]]
                 ELSE [vt EXCEPT !.stack =
                         [SubSeq(vt.stack, 1, n - 1) EXCEPT ![n - 1].out = @ \o text]]
  /\ UNCHANGED <<sx, nd, nb, kp, hu, matchVars, mergeVars, applyVars,
                 pd, ui>>

\* The expand on top of the stack reaches its next reference and calls
\* resolve for it: with the hist it was given, or with a new one when it was
\* given none.  The value found is expanded in the context that defines it;
\* a reference that is not resolved stays as written.
VarsReference ==
  /\ vt.pc = "running" /\ Len(vt.stack) < MaxDepth
  /\ LET n == Len(vt.stack)
         f == vt.stack[n]
         q == RE_VAR_next[f.text][f.pos].at
         m == RE_VAR_next[f.text][f.pos].m
         hist == IF n = 1 /\ vt.call.op = "expand" THEN {} ELSE vt.hist
         w == ResolveWalk(vt.C, IF m.hasctx THEN m.ctx ELSE f.context, m.var, hist)
         before == f.out \o SubSeq(f.text, f.pos, q - 1)
     IN /\ q <= Len(f.text)
        /\ vt' = [vt EXCEPT
                    !.hist = w.hist,
                    !.stack =
                      IF w.found
                      THEN Append([vt.stack EXCEPT ![n].pos = m.end + 1,
                                                   ![n].out = before],
                                  Frame(w.context, w.value))
                      ELSE [vt.stack EXCEPT ![n].pos = m.end + 1,
                              ![n].out = before \o SubSeq(f.text, q, m.end)]]
  /\ UNCHANGED <<sx, nd, nb, kp, hu, matchVars, mergeVars, applyVars,
                 pd, ui>>

VarsNext ==
  VarsDefine \/ VarsExpandCall \/ VarsResolveCall \/ VarsReturn \/ VarsReference

SpecVars == VarsInit /\ [][VarsNext]_vars

\* The calls are carried on until they return.
SpecVarsLive == SpecVars /\ WF_vars(VarsReturn) /\ WF_vars(VarsReference)


\* The global definitions of the table make a cycle through A: A is defined
\* as ${A}, or A as ${B} and B as ${A}.
CyclicA ==
  LET g == Vardict(vt.C, <<>>)
  IN /\ <<"A">> \in DOMAIN g
     /\ \/ g[<<"A">>] = Ref(<<"A">>)
        \/ /\ g[<<"A">>] = Ref(<<"B">>)
           /\ <<"B">> \in DOMAIN g /\ g[<<"B">>] = Ref(<<"A">>)

\* C14: every call of expand (and of resolve) returns, for every table of
\* definitions, cyclic ones included; and with A defined as ${A}, or A as
\* ${B} and B as ${A}, the call that expands ${A} returns ${A} unchanged.
C14_ExpandTerminates ==
  (vt.pc = "running") ~>
    (/\ vt.pc = "done"
     /\ (vt.call = [op |-> "expand", context |-> <<>>, arg |-> Ref(<<"A">>)]
         /\ CyclicA)
          => vt.res = [none |-> FALSE, text |-> Ref(<<"A">>)])

C14_Witness ==
  /\ vt.pc = "done" /\ CyclicA
  /\ vt.call = [op |-> "expand", context |-> <<>>, arg |-> Ref(<<"A">>)]
  /\ vt.res.text = Ref(<<"A">>)
  /\ <<"B">> \in DOMAIN Vardict(vt.C, <<>>)

\* The scopes on the path of a context: the context and what is left of it
\* before each "/".
ScopesOf(context) ==
  {SubSeq(context, 1, k) : k \in {k \in 0..Len(context) :
                                    k = Len(context) \/ context[k + 1] = "/"}}

\* The scopes on the path that hold a binding for the name.
Defining(context, name) ==
  {c \in ScopesOf(context) : Lookup(Vardict(vt.C, c), name) # <<>>}

Deepest(S) == CHOOSE c \in S : \A d \in S : Len(d) <= Len(c)

HasRef(text) == \E j \in 1..Len(text) : text[j] = "$"

DefinedValues(context, name, exact) ==
  LET Same(d) == /\ d.context = context
                 /\ IF exact THEN d.variable = name
                    ELSE upper(d.variable) = upper(name)
  IN SelectSeq(vt.defs, Same)

Last(q) == q[Len(q)]

\* C16: define records the value under the name and under its upper-case
\* form, so that a lookup of a name that was defined in exactly that case
\* gives the latest value defined for it, and a lookup of a name that was not
\* gives the value of the most recent define whose upper-cased name equals
\* the upper-cased name looked up.
C16_CaseFallback ==
  (vt.call.op = "resolve" /\ vt.pc = "done" /\ vt.call.context = <<>>) =>
    LET exact == DefinedValues(<<>>, vt.call.arg, TRUE)
        folded == DefinedValues(<<>>, vt.call.arg, FALSE)
    IN /\ (exact # <<>> /\ ~HasRef(Last(exact).value)) =>
            vt.res = [none |-> FALSE, text |-> Last(exact).value]
       /\ (exact = <<>> /\ folded # <<>> /\ ~HasRef(Last(folded).value)) =>
            vt.res = [none |-> FALSE, text |-> Last(folded).value]


\* ---------------------------------------------------------------------------
\* kicad_common.py: HasUUID.  An identity is a number: 0 is the one a source
\* carries in its uuid child, uuid4() gives 1, 2, ... and never one twice.
\* ---------------------------------------------------------------------------

MaxUuidCalls == 4

UuidNodes == {1, 2}

\* Inside the class HasUUID the attribute written as self.__uuidcache is
\* the attribute _HasUUID__uuidcache of the object; the name in the string
\* handed to getattr is taken as it stands.
CacheWritten == "_HasUUID__uuidcache"
CacheRead == "__uuidcache"

\* getattr(self, name, None)
getattr(attrs, name) == IF name \in DOMAIN attrs THEN attrs[name] ELSE None

\* HasUUID.uuid(generate) on a node n = [child, attrs], uuid4() giving new:
\* what it returns and the attributes it leaves.
HasUUID_uuid(n, generate, new) ==
  LET gen == getattr(n.attrs, CacheRead)
  IN IF n.child # None THEN [ret |-> n.child, attrs |-> n.attrs, drew |-> FALSE]
     ELSE IF gen # None \/ ~generate
     THEN [ret |-> gen, attrs |-> n.attrs, drew |-> FALSE]
     ELSE [ret |-> new, drew |-> TRUE,
           attrs |-> [a \in DOMAIN n.attrs \cup {CacheWritten} |->
                        IF a = CacheWritten THEN new ELSE n.attrs[a]]]

UuidInit ==
  /\ \E withchild \in SUBSET UuidNodes :
       hu = [pc |-> "nodes", calls |-> 0, drawn |-> 0,
             node |-> [x \in UuidNodes |->
                         [child |-> IF x \in withchild THEN 0 ELSE None,
                          attrs |-> <<>>, ret |-> None, first |-> None,
                          later |-> FALSE]]]
  /\ sx = Idle /\ nd = Idle /\ vt = Idle /\ nb = Idle /\ kp = Idle
  /\ MatchIdle /\ MergeIdle /\ ApplyIdle /\ pd = Idle /\ ui = Idle

\* node.uuid(generate=...) is called on one of the nodes.  first keeps what
\* its first call with generate returned, later tells that the last call
\* came after that one.
UuidCall ==
  /\ hu.pc = "nodes" /\ hu.calls < MaxUuidCalls
  /\ \E x \in UuidNodes, generate \in BOOLEAN :
       LET n == hu.node[x]
           r == HasUUID_uuid(n, generate, hu.drawn + 1)
       IN hu' = [hu EXCEPT
                   !.calls = @ + 1,
                   !.drawn = IF r.drew THEN @ + 1 ELSE @,
                   !.node[x] = [child |-> n.child, attrs |-> r.attrs,
                                ret |-> r.ret,
                                first |-> IF n.first = None /\ generate
                                          THEN r.ret ELSE n.first,
                                later |-> n.first # None]]
  /\ UNCHANGED <<sx, nd, vt, nb, kp, matchVars, mergeVars, applyVars,
                 pd, ui>>

UuidNext == UuidCall

SpecUuid == UuidInit /\ [][UuidNext]_vars

\* C20: for a node whose source has no uuid child, every call of uuid after
\* the first call with generate, with or without generate, returns the
\* identity that first call generated.
C20_IdentityCached ==
  hu.pc = "nodes" =>
    \A x \in UuidNodes :
      (hu.node[x].child = None /\ hu.node[x].later)
        => hu.node[x].ret = hu.node[x].first


\* ---------------------------------------------------------------------------
\* netlister.py: NetBus, the nets of a netlist and their names.  A name is a
\* tuple of strings, each a sequence of characters: a label or power name
\* is the one string of its tuple, a symbol pin is (refdes, pin name, pin
\* number).
\* ---------------------------------------------------------------------------

CAT_POWER == 1
CAT_LABEL == 2
CAT_SYMPIN == 3
CAT_SYMPIN_PWR == 4

\* The characters of the model's names in the order of their code points.
CharOrder ==
  <<"#", ".", "/", "0", "1", "2", "A", "B", "D", "E", "P", "R", "V", "[", "]",
    "a", "b", "~">>

Rank(c) == CHOOSE k \in 1..Len(CharOrder) : CharOrder[k] = c

\* a < b on strings.
StrLess(a, b) ==
  \E k \in 1..(Len(a) + 1) :
    /\ \A j \in 1..(k - 1) : j <= Len(b) /\ a[j] = b[j]
    /\ \/ k = Len(a) + 1 /\ Len(b) >= k
       \/ k <= Len(a) /\ k <= Len(b) /\ Rank(a[k]) < Rank(b[k])

\* s < t on tuples of strings.
TupleLess(s, t) ==
  \E k \in 1..(Len(s) + 1) :
    /\ \A j \in 1..(k - 1) : j <= Len(t) /\ s[j] = t[j]
    /\ \/ k = Len(s) + 1 /\ Len(t) >= k
       \/ k <= Len(s) /\ k <= Len(t) /\ StrLess(s[k], t[k])

\* e < f on the entries (category, depth, sortname, name) of _names.
EntryLess(e, f) ==
  \/ e.cat < f.cat
  \/ e.cat = f.cat /\ e.depth < f.depth
  \/ e.cat = f.cat /\ e.depth = f.depth /\ TupleLess(e.sortname, f.sortname)
  \/ e.cat = f.cat /\ e.depth = f.depth /\ e.sortname = f.sortname
     /\ TupleLess(e.name, f.name)

IsPin(cat) == cat \in {CAT_SYMPIN, CAT_SYMPIN_PWR}

\* name.count("/"): the slashes of a string, the elements "/" of a tuple.
CountSlash(cat, name) ==
  IF IsPin(cat) THEN Cardinality({k \in 1..Len(name) : name[k] = <<"/">>})
  ELSE Cardinality({k \in 1..Len(name[1]) : name[1][k] = "/"})

\* The entry add_name(name, category) puts into _names.
NameEntry(name, category) ==
  [cat |-> IF category = CAT_SYMPIN /\ name[1] # <<>> /\ name[1][1] = "#"
           THEN CAT_SYMPIN_PWR ELSE category,
   depth |-> CountSlash(category, name),
   sortname |-> [k \in 1..Len(name) |-> upper(name[k])],
   name |-> name]

\* "-".join(parts)
RECURSIVE JoinDash(_)
JoinDash(parts) ==
  IF parts = <<>> THEN <<>>
  ELSE IF Len(parts) = 1 THEN parts[1]
  ELSE parts[1] \o <<"-">> \o JoinDash(Tail(parts))

\* The parts of a pin that are joined with every part kept.
PinParts_all(name) == <<name[1], name[2], <<"P", "a", "d">> \o name[3]>>

\* The parts of a pin that are joined: refdes, pin name and Pad + number,
\* without those that are empty or "~".
PinParts(name) ==
  LET Kept(q) == q # <<>> /\ q # <<"~">>
  IN SelectSeq(<<name[1], name[2], <<"P", "a", "d">> \o name[3]>>, Kept)

\* The root of a net: the end of its _mergedinto links (0 is None).
RECURSIVE RootOf(_, _)
RootOf(nets, x) ==
  IF nets[x].mergedinto = 0 THEN x ELSE RootOf(nets, nets[x].mergedinto)

\* NetBus.name(): None is <<>>.
NetBus_name(nets, x) ==
  LET names == nets[RootOf(nets, x)].names
      least == CHOOSE e \in names : \A f \in names : f = e \/ EntryLess(e, f)
      pins == Cardinality({e \in names : e.cat = CAT_SYMPIN})
  IN IF names = {} THEN <<>>
     ELSE IF least.cat = CAT_SYMPIN
     THEN <<(IF pins > 1 THEN <<"N", "e", "t">>
             ELSE <<"u", "n", "c", "o", "n", "n", "e", "c", "t", "e", "d">>)
            \o <<"-", "(">> \o JoinDash(PinParts(least.name)) \o <<")">>>>
     ELSE least.name

\* merge_into that leaves the no-connect marks behind.
NetBus_merge_into_noncs(nets, x, item) ==
  LET r == RootOf(nets, item)
  IN IF r = x THEN nets
     ELSE [nets EXCEPT ![r].names = @ \cup nets[x].names, ![x].mergedinto = r]

\* NetBus.merge_into(item) on the net x.
NetBus_merge_into(nets, x, item) ==
  LET r == RootOf(nets, item)
  IN IF r = x THEN nets
     ELSE [nets EXCEPT ![r].names = @ \cup nets[x].names,
                       ![r].ncs = @ \cup nets[x].ncs,
                       ![x].mergedinto = r]

\* NetBus.add_name(name, category) on the net x.
NetBus_add_name(nets, x, name, category) ==
  [nets EXCEPT ![x].names = @ \cup {NameEntry(name, category)}]


MaxNets == 3
MaxNames == 3

NetIds == 1..MaxNets

\* What add_label and add_sympin pass to add_name: global and hierarchical
\* labels, a power pin's name, and the pins of symbols, one of them of a
\* power symbol and one without a pin name.
NameMenu ==
  { [name |-> <<<<"V">>>>, category |-> CAT_POWER],
    [name |-> <<<<"/", "a">>>>, category |-> CAT_LABEL],
    [name |-> <<<<"/", "A">>>>, category |-> CAT_LABEL],
    [name |-> <<<<"/", "b", "/", "A">>>>, category |-> CAT_LABEL],
    [name |-> <<<<"R", "1">>, <<"A">>, <<"1">>>>, category |-> CAT_SYMPIN],
    [name |-> <<<<"R", "1">>, <<"~">>, <<"2">>>>, category |-> CAT_SYMPIN],
    [name |-> <<<<"R", "2">>, <<>>, <<"1">>>>, category |-> CAT_SYMPIN],
    [name |-> <<<<"#", "P">>, <<"V">>, <<"1">>>>, category |-> CAT_SYMPIN] }

NetInit ==
  /\ nb = [pc |-> "nets",
           nets |-> [x \in NetIds |->
                      [mergedinto |-> 0, names |-> {}, ncs |-> {}]],
           added |-> [x \in NetIds |-> {}],
           count |-> 0]
  /\ sx = Idle /\ nd = Idle /\ vt = Idle /\ kp = Idle /\ hu = Idle
  /\ MatchIdle /\ MergeIdle /\ ApplyIdle /\ pd = Idle /\ ui = Idle

\* add_name on a net that is not merged (the assertion of add_name).
NetAddName ==
  /\ nb.pc = "nets"
  /\ nb.count < MaxNames
  /\ \E x \in NetIds : \E m \in NameMenu :
       /\ nb.nets[x].mergedinto = 0
       /\ nb' = [nb EXCEPT
                   !.nets = NetBus_add_name(nb.nets, x, m.name, m.category),
                   !.added[x] = @ \cup {m},
                   !.count = @ + 1]
  /\ UNCHANGED <<sx, nd, vt, kp, hu, matchVars, mergeVars, applyVars,
                 pd, ui>>

\* merge_into on a net that is not merged (the assertion of merge_into).
NetMerge ==
  /\ nb.pc = "nets"
  /\ \E x \in NetIds : \E item \in NetIds :
       /\ nb.nets[x].mergedinto = 0
       /\ RootOf(nb.nets, item) # x
       /\ nb' = [nb EXCEPT !.nets = NetBus_merge_into(nb.nets, x, item)]
  /\ UNCHANGED <<sx, nd, vt, kp, hu, matchVars, mergeVars, applyVars,
                 pd, ui>>

NetNext == NetAddName \/ NetMerge

SpecNet == NetInit /\ [][NetNext]_vars

\* The nets merged together with x, and every name given to one of them.
Component(x) == {y \in NetIds : RootOf(nb.nets, y) = RootOf(nb.nets, x)}

ComponentNames(x) == UNION {nb.added[y] : y \in Component(x)}

\* The category, depth and upper-cased name of a name given to add_name.
KeyOf(m) == NameEntry(m.name, m.category)

KeyLess(e, f) ==
  \/ e.cat < f.cat
  \/ e.cat = f.cat /\ e.depth < f.depth
  \/ e.cat = f.cat /\ e.depth = f.depth /\ TupleLess(e.sortname, f.sortname)

Minimal(x) ==
  {m \in ComponentNames(x) :
     \A o \in ComponentNames(x) : ~KeyLess(KeyOf(o), KeyOf(m))}

SymbolPins(x) == {m \in ComponentNames(x) : KeyOf(m).cat = CAT_SYMPIN}

Pre(x) ==
  IF Cardinality(SymbolPins(x)) > 1 THEN <<"N", "e", "t">>
  ELSE <<"u", "n", "c", "o", "n", "n", "e", "c", "t", "e", "d">>

Named(q) == q # <<>> /\ q # <<"~">>

\* 'pre-(refdes-pinName-PadNumber)' of a pin, with every part written.
PinText(x, m) ==
  <<Pre(x) \o <<"-", "(">> \o m.name[1] \o <<"-">> \o m.name[2]
    \o <<"-", "P", "a", "d">> \o m.name[3] \o <<")">>>>

\* The same with the pin name left out when it is empty or "~".
PinTextNamed(x, m) ==
  IF Named(m.name[2]) THEN PinText(x, m)
  ELSE <<Pre(x) \o <<"-", "(">> \o m.name[1]
         \o <<"-", "P", "a", "d">> \o m.name[3] \o <<")">>>>

\* C17: name() of every member of a component is derived from the minimum of
\* all the component's names by (category, depth, upper-cased name): for a
\* symbol pin 'Net-(refdes-pinName-PadNumber)' when the component has more
\* than one symbol-pin name and 'unconnected-(...)' otherwise, else the
\* name itself.
C17_NameFromMinimum ==
  nb.pc = "nets" =>
    \A x \in NetIds :
      IF ComponentNames(x) = {} THEN NetBus_name(nb.nets, x) = <<>>
      ELSE \E m \in Minimal(x) :
             NetBus_name(nb.nets, x) =
               IF KeyOf(m).cat = CAT_SYMPIN THEN PinText(x, m) ELSE m.name

\* C17 as the code has it: a pin name that is empty or "~" is left out of
\* the text, 'Net-(refdes-PadNumber)'.
C17_NameFromMinimumNamed ==
  nb.pc = "nets" =>
    \A x \in NetIds :
      IF ComponentNames(x) = {} THEN NetBus_name(nb.nets, x) = <<>>
      ELSE \E m \in Minimal(x) :
             NetBus_name(nb.nets, x) =
               IF KeyOf(m).cat = CAT_SYMPIN THEN PinTextNamed(x, m)
               ELSE m.name

\* Two nets merged, one whose least name is a symbol pin without a pin name,
\* with a second symbol pin in the component.
C17_Witness ==
  /\ nb.pc = "nets"
  /\ \E x \in NetIds :
       /\ nb.nets[x].mergedinto # 0
       /\ Cardinality(SymbolPins(x)) > 1
       /\ \E m \in Minimal(x) :
            KeyOf(m).cat = CAT_SYMPIN /\ ~Named(m.name[2])
       /\ NetBus_name(nb.nets, x) =
            <<<<"N", "e", "t", "-", "(", "R", "1", "-", "P", "a", "d", "2",
                ")">>>>


\* ---------------------------------------------------------------------------
\* kicad_pro.py: get_pages, the loading of a project's schematic files and
\* the pruning of stale sheet instances.  A sheet path "/r/s1" is the
\* sequence of its identities <<"r", "s1">>; the path of the root page, "",
\* is <<>>.
\* ---------------------------------------------------------------------------

RootFile == "p.kicad_sch"
Files == {RootFile, "a.kicad_sch", "b.kicad_sch"}
RootUuid == "r"

\* The sheets of each schematic file, in the order of the file, and the file
\* each sheet refers to.
\* b.kicad_sch is referenced by two sheets; s4 refers back to the root file,
\* an ancestor of its own file, and s5 to the file it is in.
SheetIds == {"s1", "s2", "s3", "s4", "s5"}

SheetsIn(file) ==
  IF file = RootFile THEN <<"s1", "s2">>
  ELSE IF file = "a.kicad_sch" THEN <<"s3", "s5">> ELSE <<"s4">>

SheetFile(sheet) ==
  IF sheet \in {"s1", "s5"} THEN "a.kicad_sch"
  ELSE IF sheet = "s4" THEN RootFile ELSE "b.kicad_sch"

\* The paths a sheet's instances can list for the project: directly under
\* the root, under the sheet s1, under a sheet that no longer exists, and
\* under the sheet s2.
PathMenu == <<<<"r">>, <<"r", "s1">>, <<"r", "zz">>, <<"r", "s2">>>>

\* The paths each sheet may list: any of the first three for s1, s2 and s3,
\* the path of its own page at most for s4 and s5.
PathChoices(sheet) ==
  IF sheet = "s4" THEN {4} ELSE IF sheet = "s5" THEN {2} ELSE {1, 2, 3}

\* A project: which files the loader returns a tree for, and the paths each
\* sheet lists for the project.
Projects ==
  {proj \in [loads : [Files -> BOOLEAN],
             paths : [SheetIds -> SUBSET (1..Len(PathMenu))]] :
     \A sheet \in SheetIds : proj.paths[sheet] \subseteq PathChoices(sheet)}

\* Sheet.paths(project)
Sheet_paths(proj, sheet) ==
  LET Listed(k) == k \in proj.paths[sheet]
      idx == SelectSeq([k \in 1..Len(PathMenu) |-> k], Listed)
  IN [j \in 1..Len(idx) |-> PathMenu[idx[j]]]

\* KicadSch.get_sheets(project): (path, sheet) of every path of every sheet.
RECURSIVE get_sheets_from(_, _, _)
get_sheets_from(proj, file, k) ==
  IF k > Len(SheetsIn(file)) THEN <<>>
  ELSE LET sheet == SheetsIn(file)[k]
           ps == Sheet_paths(proj, sheet)
       IN [j \in 1..Len(ps) |-> [path |-> ps[j], sheet |-> sheet]]
          \o get_sheets_from(proj, file, k + 1)

get_sheets(proj, file) == get_sheets_from(proj, file, 1)

\* Path.uuid(sheet)
Path_uuid(inst) == Append(inst.path, inst.sheet)

\* The one member of a set of one value.
Only(S) == CHOOSE r \in S : TRUE

\* The body of the for loop over get_sheets in get_pages: a file not yet in
\* pages is queued, and the instance is appended to the file's list.
AddSheet(st, inst, requeue) ==
  LET f == SheetFile(inst.sheet)
      known == f \in DOMAIN st.pages
      entry == IF known THEN st.pages[f]
               ELSE [instances |-> <<>>, loaded |-> FALSE]
  IN [st EXCEPT
        !.pages = [g \in DOMAIN st.pages \cup {f} |->
                     IF g = f
                     THEN [entry EXCEPT !.instances = Append(@, inst)]
                     ELSE st.pages[g]],
        !.order = IF known THEN @ ELSE Append(@, f),
        !.to_load = IF known /\ ~requeue THEN @ ELSE Append(@, f)]

\* The for loop over get_sheets queueing the file of every instance.
RECURSIVE AddSheets_requeue(_, _, _)
AddSheets_requeue(st, insts, k) ==
  IF k > Len(insts) THEN st
  ELSE Only({AddSheets_requeue(next, insts, k + 1) :
               next \in {AddSheet(st, insts[k], TRUE)}})

\* The for loop over get_sheets in get_pages, from its k-th instance.
RECURSIVE AddSheets(_, _, _)
AddSheets(st, insts, k) ==
  IF k > Len(insts) THEN st
  ELSE Only({AddSheets(next, insts, k + 1) :
               next \in {AddSheet(st, insts[k], FALSE)}})

\* KicadPro.uuid_to_name(pages, uuid): "name", "None", or the exception
\* raised on the way.
RECURSIVE uuid_to_name_from(_, _, _)
uuid_to_name_from(pages, rest, file) ==
  IF rest = <<>> THEN "name"
  ELSE IF file \notin DOMAIN pages THEN "KeyError"
  ELSE IF ~pages[file].loaded THEN "TypeError"
  ELSE IF \E k \in 1..Len(SheetsIn(file)) : SheetsIn(file)[k] = rest[1]
  THEN uuid_to_name_from(pages, Tail(rest), SheetFile(rest[1]))
  ELSE "None"

uuid_to_name(pages, uuid) ==
  IF Len(uuid) <= 1 THEN "name"
  ELSE uuid_to_name_from(pages, Tail(uuid), RootFile)

\* The first loop of the pruning: the (file, index) of the instances to
\* remove, or the exception raised.
RECURSIVE ToRemove(_, _, _, _, _)
ToRemove(pages, order, k, i, acc) ==
  IF k > Len(order) THEN [raised |-> "", list |-> acc]
  ELSE IF ~pages[order[k]].loaded THEN [raised |-> "ValueError", list |-> acc]
  ELSE IF i > Len(pages[order[k]].instances)
  THEN ToRemove(pages, order, k + 1, 1, acc)
  ELSE LET n == uuid_to_name(pages, Path_uuid(pages[order[k]].instances[i]))
       IN IF n \in {"KeyError", "TypeError"} THEN [raised |-> n, list |-> acc]
          ELSE ToRemove(pages, order, k, i + 1,
                        IF n = "None" THEN Append(acc, <<order[k], i>>)
                        ELSE acc)

DeleteAt(seq, i) ==
  [j \in 1..(Len(seq) - 1) |-> IF j < i THEN seq[j] ELSE seq[j + 1]]

\* del pages[filepath][0][i : i + 1], and the entry with it when its list
\* is left empty.
RemoveOne(pages, f, i) ==
  LET left == IF f \in DOMAIN pages /\ i <= Len(pages[f].instances)
              THEN DeleteAt(pages[f].instances, i) ELSE <<>>
  IN IF left = <<>> THEN [g \in DOMAIN pages \ {f} |-> pages[g]]
     ELSE [pages EXCEPT ![f].instances = left]

\* The second loop taking the list from its first entry on.
RECURSIVE Remove_forward(_, _, _)
Remove_forward(pages, list, k) ==
  IF k > Len(list) THEN pages
  ELSE Only({Remove_forward(next, list, k + 1) :
               next \in {RemoveOne(pages, list[k][1], list[k][2])}})

\* The second loop of the pruning: the list is taken from its end, and a
\* file without instances is removed.
RECURSIVE Remove(_, _, _)
Remove(pages, list, k) ==
  IF k < 1 THEN pages
  ELSE Only({Remove(next, list, k - 1) :
               next \in {RemoveOne(pages, list[k][1], list[k][2])}})

Prune_forward(pages, list) == Remove_forward(pages, list, 1)

Prune(pages, list) == Remove(pages, list, Len(list))

PagesInit ==
  /\ \E proj \in Projects :
       kp = [pc |-> "loading", proj |-> proj,
             pages |-> <<>>, order |-> <<>>, to_load |-> <<RootFile>>,
             unable |-> <<>>, loaded |-> <<>>, raised |-> "", tried |-> <<>>]
  /\ sx = Idle /\ nd = Idle /\ vt = Idle /\ nb = Idle /\ hu = Idle
  /\ MatchIdle /\ MergeIdle /\ ApplyIdle /\ pd = Idle /\ ui = Idle

\* One turn of the while loop of get_pages on a file that has a tree; the
\* entry of the file holds no tree yet (the assertion of line 149).
PagesLoad ==
  /\ kp.pc = "loading"
  /\ kp.to_load # <<>>
  /\ LET file == kp.to_load[Len(kp.to_load)]
         popped == [kp EXCEPT !.to_load = SubSeq(@, 1, Len(@) - 1),
                              !.tried = Append(@, file)]
         isroot == file \notin DOMAIN kp.pages
         entry == IF isroot
                  THEN [instances |-> <<[path |-> <<>>, sheet |-> RootUuid]>>,
                        loaded |-> TRUE]
                  ELSE [kp.pages[file] EXCEPT !.loaded = TRUE]
         withsch == [popped EXCEPT
                       !.pages = [g \in DOMAIN kp.pages \cup {file} |->
                                    IF g = file THEN entry ELSE kp.pages[g]],
                       !.order = IF isroot THEN Append(@, file) ELSE @]
     IN /\ kp.proj.loads[file]
        /\ kp' = IF ~isroot /\ kp.pages[file].loaded
                 THEN [popped EXCEPT !.pc = "raised",
                                     !.raised = "AssertionError",
                                     !.loaded = kp.pages]
                 ELSE AddSheets(withsch, get_sheets(kp.proj, file), 1)
  /\ UNCHANGED <<sx, nd, vt, nb, hu, matchVars, mergeVars, applyVars,
                 pd, ui>>

\* One turn of the while loop on a file whose tree is None.
PagesUnable ==
  /\ kp.pc = "loading"
  /\ kp.to_load # <<>>
  /\ ~kp.proj.loads[kp.to_load[Len(kp.to_load)]]
  /\ kp' = [kp EXCEPT !.to_load = SubSeq(@, 1, Len(@) - 1),
                      !.tried = Append(@, kp.to_load[Len(kp.to_load)]),
                      !.unable = Append(@, kp.to_load[Len(kp.to_load)])]
  /\ UNCHANGED <<sx, nd, vt, nb, hu, matchVars, mergeVars, applyVars,
                 pd, ui>>

\* The pruning and the return of get_pages.
PagesPrune ==
  /\ kp.pc = "loading"
  /\ kp.to_load = <<>>
  /\ LET rem == ToRemove(kp.pages, kp.order, 1, 1, <<>>)
     IN kp' = IF rem.raised # ""
              THEN [kp EXCEPT !.pc = "raised", !.raised = rem.raised,
                              !.loaded = kp.pages]
              ELSE [kp EXCEPT !.pc = "returned", !.loaded = kp.pages,
                              !.pages = Prune(kp.pages, rem.list)]
  /\ UNCHANGED <<sx, nd, vt, nb, hu, matchVars, mergeVars, applyVars,
                 pd, ui>>

PagesNext == PagesLoad \/ PagesUnable \/ PagesPrune

SpecPages == PagesInit /\ [][PagesNext]_vars

\* get_pages runs on: the while loop takes its next turn, and the pruning
\* follows it.
SpecPagesLive == SpecPages /\ WF_vars(PagesNext)


\* An instance whose path uuid_to_name follows through the pages that were
\* loaded.
Followable(inst) == uuid_to_name(kp.loaded, Path_uuid(inst)) = "name"

C19_UnloadableSkipped ==
  (kp.pc \in {"returned", "raised"} /\ kp.unable # <<>>) =>
    /\ kp.pc = "returned"
    /\ \A f \in DOMAIN kp.pages : kp.pages[f].loaded

\* The part of C19 that holds: a root file without a tree gives the empty
\* mapping.
C19_RootUnloadable ==
  (kp.pc \in {"returned", "raised"} /\ ~kp.proj.loads[RootFile]) =>
    kp.pc = "returned" /\ DOMAIN kp.pages = {} /\ kp.unable = <<RootFile>>

\* Every instance of the returned mapping can be followed in that mapping.
PagesFollowReturned ==
  kp.pc = "returned" =>
    \A f \in DOMAIN kp.pages : \A k \in 1..Len(kp.pages[f].instances) :
      uuid_to_name(kp.pages, Path_uuid(kp.pages[f].instances[k])) = "name"


\* ---------------------------------------------------------------------------
\* diff.py: the greedy rounds of matchlists and the shape of its result.
\* ---------------------------------------------------------------------------

\* The pairs (base position, other position) both still unmatched whose
\* full distance is not disparate.
Unpaired(bm, om) ==
  {c \in (1..Len(mbase)) \X (1..Len(mother)) :
     /\ bm[c[1]] = None
     /\ c[2] \notin om
     /\ distance(mbase[c[1]], mother[c[2]], FALSE) # None}

FullDistance(c) == distance(mbase[c[1]], mother[c[2]], FALSE)

\* The base position a greedy round has just matched.
Paired == CHOOSE i \in 1..Len(mbase) : mstate'.bm[i] # mstate.bm[i]

GreedyPairsSmallest ==
  (mpc = "greedy" /\ mstate' # mstate) =>
    LET c == <<Paired, mstate'.bm[Paired]>>
    IN /\ c \in Unpaired(mstate.bm, mstate.om)
       /\ mstate'.om = mstate.om \cup {c[2]}
       /\ \A i \in 1..Len(mbase) : i # c[1] => mstate'.bm[i] = mstate.bm[i]
       /\ \A e \in Unpaired(mstate.bm, mstate.om) :
            \/ FullDistance(c) < FullDistance(e)
            \/ /\ FullDistance(c) = FullDistance(e)
               /\ (c[1] < e[1] \/ (c[1] = e[1] /\ c[2] <= e[2]))

\* C22: every greedy round pairs the unmatched, non-disparate pair of the
\* smallest full distance, the lowest base position and then the lowest
\* other position breaking ties; the rounds go on while such a pair
\* exists, so the result has no removed base item and added other item that
\* are not disparate.
C22_GreedySmallestFirst ==
  /\ [][GreedyPairsSmallest]_vars
  /\ [](mpc = "done" =>
          /\ Unpaired(mstate.bm, mstate.om) = {}
          /\ \A i \in 1..Len(mbase) : \A q \in (Len(mbase) + 1)..Len(mresult) :
               mresult[i] = None =>
                 distance(mbase[i], mother[mresult[q]], FALSE) = None)

\* The matcher has finished on two base items and two other items all at
\* distance one from each other, pairing first with first.
C22_Witness ==
  /\ mpc = "done"
  /\ mbase = <<Item("a", 0, 0), Item("a", 1, 1)>>
  /\ mother = <<Item("a", 0, 1), Item("a", 1, 0)>>
  /\ mresult = <<1, 2>>


\* C23: the result has one entry for every base position followed by the
\* added items, and every other item occurs in it exactly once: as the match
\* of one base position or once in the tail.
C23_EachOtherOnce ==
  mpc = "done" =>
    /\ Len(mresult) >= Len(mbase)
    /\ \A q \in 1..Len(mresult) :
         \/ mresult[q] \in 1..Len(mother)
         \/ q <= Len(mbase) /\ mresult[q] = None
    /\ \A j \in 1..Len(mother) :
         Cardinality({q \in 1..Len(mresult) : mresult[q] = j}) = 1

\* The matcher has finished with one base item matched, one removed and one
\* other item added.
C23_Witness ==
  /\ mpc = "done"
  /\ mbase = <<Item("a", 0, 0), Item("b", 0, 0)>>
  /\ mother = <<Item("a", 0, 1), Item("a", 1, 0)>>
  /\ mresult = <<1, None, 2>>


\* ---------------------------------------------------------------------------
\* kicad_common.py: expand on definitions without a cycle.
\* ---------------------------------------------------------------------------

\* The names referenced in a text.
RefsIn(text) ==
  {RE_VAR_next[text][p].m.var :
     p \in {p \in 1..Len(text) : RE_VAR_next[text][p].at <= Len(text)}}

GlobalDict == Vardict(vt.C, <<>>)

\* The key of the global dict a name is found under.
VarKey(name) == IF name \in DOMAIN GlobalDict THEN name ELSE upper(name)

\* The names referenced by the values of the names of S that are defined.
RefsOf(S) ==
  UNION {RefsIn(GlobalDict[VarKey(n)]) :
           n \in {n \in S : Lookup(GlobalDict, n) # <<>>}}

\* The names reachable from S through the values, S included: the global
\* dict of the model has at most three keys.
ReachFrom(S) == S \cup RefsOf(S) \cup RefsOf(RefsOf(S)) \cup RefsOf(RefsOf(RefsOf(S)))

\* Every name reachable from the text is defined, and none is reachable
\* from its own value.
Expandable(text) ==
  /\ \A n \in ReachFrom(RefsIn(text)) : Lookup(GlobalDict, n) # <<>>
  /\ \A n \in ReachFrom(RefsIn(text)) :
       VarKey(n) \notin {VarKey(k) : k \in ReachFrom(RefsOf({n}))}

\* C28: with all definitions in the global context, no reference cycle and
\* every referenced name defined, the text expand returns has no reference
\* left, also when a value references one variable twice.
C28_FullyExpanded ==
  (/\ vt.pc = "done" /\ vt.call.op = "expand"
   /\ DOMAIN vt.C \subseteq {<<>>}
   /\ Expandable(vt.call.arg))
    => ~HasRef(vt.res.text)

\* The part of C28 that holds: the same when no value of a reachable name
\* references the same variable a second time.
C28_SingleReferences ==
  (/\ vt.pc = "done" /\ vt.call.op = "expand"
   /\ DOMAIN vt.C \subseteq {<<>>}
   /\ Expandable(vt.call.arg)
   /\ \A n \in ReachFrom(RefsIn(vt.call.arg)) :
        GlobalDict[VarKey(n)] # Ref(<<"A">>) \o Ref(<<"A">>))
    => ~HasRef(vt.res.text)


\* ---------------------------------------------------------------------------
\* diff.py: one property diff applied to its target again and again.
\* ---------------------------------------------------------------------------

MaxApplies == 3

PropValues == {0, 1, 2}

\* The target holds any values; the diff changes one property from old to
\* another value new.
PropInit ==
  /\ \E v \in PropValues, u \in PropValues, key \in {"v", "u"},
        old \in PropValues, new \in PropValues :
       /\ old # new
       /\ pd = [pc |-> "applying",
                st |-> PageState(<<Item("a", v, u)>>, <<>>, <<>>),
                D |-> [NoDiffs EXCEPT
                         !.ours.flat =
                           <<ModDiff(1, [key |-> key, old |-> old, new |-> new])>>],
                reports |-> <<>>]
  /\ sx = Idle /\ nd = Idle /\ vt = Idle /\ nb = Idle /\ kp = Idle /\ hu = Idle
  /\ ui = Idle
  /\ MatchIdle /\ MergeIdle /\ ApplyIdle

\* diff.apply(mode), with mode APPLY_ALL or APPLY_FORCEALL.
PropApply ==
  /\ pd.pc = "applying"
  /\ Len(pd.reports) < MaxApplies
  /\ \E mode \in {APPLY_ALL, APPLY_FORCEALL} :
       LET r == Diff_apply(pd.D, pd.st, "ours", 1, mode)
       IN pd' = [pd EXCEPT
                   !.st = r.st,
                   !.reports = Append(@,
                     [mode |-> mode,
                      before |-> pd.st.obj[1], after |-> r.st.obj[1],
                      conflicts |-> r.conflicts,
                      redundant |-> 1 \in r.st.red.ours])]
  /\ UNCHANGED <<sx, nd, vt, nb, kp, hu, ui, matchVars, mergeVars, applyVars>>

PropNext == PropApply

SpecProp == PropInit /\ [][PropNext]_vars

TheDiff == pd.D.ours.flat[1]

\* What an apply reported, given the value before it.
Succeeded(r) ==
  r.conflicts = <<>> /\ r.after = [r.before EXCEPT ![TheDiff.key] = TheDiff.new]

Conflicted(r) == r.conflicts = <<1>> /\ r.after = r.before

Redundant(r) == r.conflicts = <<>> /\ r.redundant /\ r.after = r.before

\* C29: an apply changes the target only when the property holds old; when
\* it holds neither old nor new the apply reports a conflict, when it holds
\* new it reports redundant, the target unchanged in both cases; so the same
\* diff applied twice succeeds, then is redundant.
C29_ApplyOnlyFromOld ==
  pd.pc = "applying" =>
    /\ \A k \in 1..Len(pd.reports) :
         LET r == pd.reports[k]
             held == r.before[TheDiff.key]
         IN /\ held = TheDiff.old => Succeeded(r)
            /\ held \notin {TheDiff.old, TheDiff.new} => Conflicted(r)
            /\ held = TheDiff.new => Redundant(r)
    /\ (Len(pd.reports) >= 2 /\ Succeeded(pd.reports[1])) =>
         /\ Redundant(pd.reports[2])
         /\ pd.reports[2].after = pd.reports[1].after

\* C29 as the code has it: the conflict is reported for a diff that is
\* important, or applied with FORCEIMPORTANT; an unimportant diff whose
\* target holds neither old nor new is flagged redundant and nothing is
\* reported.
C29_ApplyOnlyFromOldImportant ==
  pd.pc = "applying" =>
    /\ \A k \in 1..Len(pd.reports) :
         LET r == pd.reports[k]
             held == r.before[TheDiff.key]
             important == ~TheDiff.unimp \/ APPLY_FORCEIMPORTANT \subseteq r.mode
         IN /\ held = TheDiff.old => Succeeded(r)
            /\ (held \notin {TheDiff.old, TheDiff.new} /\ important)
                 => Conflicted(r)
            /\ (held \notin {TheDiff.old, TheDiff.new} /\ ~important)
                 => Redundant(r)
            /\ held = TheDiff.new => Redundant(r)
    /\ (Len(pd.reports) >= 2 /\ Succeeded(pd.reports[1])) =>
         /\ Redundant(pd.reports[2])
         /\ pd.reports[2].after = pd.reports[1].after

\* An unimportant diff applied to a target holding neither old nor new:
\* flagged redundant under APPLY_ALL, a conflict under APPLY_FORCEALL.
C29_Witness ==
  /\ pd.pc = "applying"
  /\ Len(pd.reports) = MaxApplies
  /\ TheDiff.unimp
  /\ pd.reports[1].before[TheDiff.key] \notin {TheDiff.old, TheDiff.new}
  /\ pd.reports[1].mode = APPLY_ALL
  /\ Redundant(pd.reports[1])
  /\ pd.reports[2].mode = APPLY_FORCEALL
  /\ Conflicted(pd.reports[2])


\* ---------------------------------------------------------------------------
\* kicad_pro.py: get_pages on projects whose sheets refer back to a file.
\* ---------------------------------------------------------------------------

\* The (path, sheet) references to a file from the files that were loaded.
ReferencesTo(file) ==
  {<<g, k>> \in (Files \X (1..8)) :
     /\ g \in DOMAIN kp.loaded /\ kp.loaded[g].loaded
     /\ k <= Len(get_sheets(kp.proj, g))
     /\ SheetFile(get_sheets(kp.proj, g)[k].sheet) = file}

\* No file is handed to the loader twice, and when the loop has ended every
\* entry holds one instance for each reference to its file, and the root's
\* entry its own instance besides.
LoadedOnce ==
  /\ \A j \in 1..Len(kp.tried) : \A k \in 1..Len(kp.tried) :
       kp.tried[j] = kp.tried[k] => j = k
  /\ kp.pc \in {"returned", "raised"} =>
       /\ kp.raised # "AssertionError"
       /\ \A f \in DOMAIN kp.loaded :
            Len(kp.loaded[f].instances) =
              Cardinality(ReferencesTo(f))
                + (IF f = RootFile /\ kp.loaded[f].loaded THEN 1 ELSE 0)

\* C30: get_pages hands each file to the loader at most once and comes to
\* its end for every project, with a sheet that refers to its own file or to
\* the root file and with a file referred to by several sheets; every such
\* reference adds an instance to the entry of the file.
C30_LoadsOnceAndEnds ==
  /\ []LoadedOnce
  /\ (kp.pc = "loading") ~> (kp.pc \in {"returned", "raised"})

\* get_pages has returned for a project in which the root file is referred
\* to from b.kicad_sch, a.kicad_sch from itself and b.kicad_sch twice.
C30_Witness ==
  /\ kp.pc = "returned"
  /\ kp.tried = <<RootFile, "b.kicad_sch", "a.kicad_sch">>
  /\ Len(kp.loaded[RootFile].instances) = 2
  /\ Len(kp.loaded["a.kicad_sch"].instances) = 2
  /\ Len(kp.loaded["b.kicad_sch"].instances) = 2

\* ---------------------------------------------------------------------------
\* netlister.py: Netlister, Bus and ReplaceableDict.  The NetBus objects are
\* the elements of a heap h, a sequence indexed by their identity (0 is
\* None); a Net has no members, sheet pins or subsheet buses.  is_bus is 0
\* or 1 (False and True).  A dict is a function on the keys it holds.  An
\* instance is the sequence of the uuids of its path, an InstCoord is
\* <<instance, x, y, is_bus>> and an InstLabel is <<instance, text>>.
\* ---------------------------------------------------------------------------

UNKNOWN == -1

Net_new ==
  [isbus |-> 0, mergedinto |-> 0, names |-> {}, ncs |-> {},
   members |-> <<>>, sheetpins |-> <<>>, subsheet |-> <<>>]

Bus_new == [Net_new EXCEPT !.isbus = 1]

\* NetBus.new(is_bus)
NetBus_new(is_bus) == IF is_bus = 1 THEN Bus_new ELSE Net_new

\* self[key] = item
Put(d, key, item) == (key :> item) @@ d

\* ReplaceableDict.getrep(key, setdefault): the dict with the key's entry
\* moved to the end of the links, and that root.
ReplaceableDict_getrep(h, d, key, setdefault) ==
  IF key \notin DOMAIN d
  THEN IF setdefault = 0 THEN [d |-> d, r |-> 0, err |-> "KeyError"]
       ELSE [d |-> Put(d, key, setdefault), r |-> setdefault, err |-> ""]
  ELSE [d |-> Put(d, key, RootOf(h, d[key])), r |-> RootOf(h, d[key]),
        err |-> ""]

FirstErr(a, b) == IF a # "" THEN a ELSE b

\* The member names of a dict of members in the order of their text.
FirstMember(todo) ==
  CHOOSE m \in todo : \A o \in todo : o = m \/ StrLess(m, o)

RECURSIVE ReplaceableDict_setrep(_, _, _, _)
RECURSIVE Bus_add_member(_, _, _, _)
RECURSIVE Bus_merge_members(_, _, _, _)
RECURSIVE Bus_merge_into(_, _, _)

\* curitem.merge_into(item): Bus.merge_into on a bus, NetBus.merge_into on a
\* net.
Merge_into(h, x, item) ==
  IF h[x].isbus = 1 THEN Bus_merge_into(h, x, item)
  ELSE IF h[x].mergedinto # 0 THEN [h |-> h, err |-> "AssertionError"]
  ELSE [h |-> NetBus_merge_into(h, x, item), err |-> ""]

\* ReplaceableDict.setrep(key, item)
ReplaceableDict_setrep(h, d, key, item) ==
  IF h[item].mergedinto # 0
  THEN [h |-> h, d |-> d, r |-> item, err |-> "AssertionError"]
  ELSE LET g == ReplaceableDict_getrep(h, d, key, item)
       IN Only({[h |-> m.h, d |-> Put(g.d, key, RootOf(m.h, item)),
                 r |-> item, err |-> m.err] :
                m \in {Merge_into(h, g.r, item)}})

\* Bus.add_member(member, net) on the bus x.
Bus_add_member(h, x, member, net) ==
  IF h[x].mergedinto # 0 \/ h[net].isbus = 1 \/ h[net].mergedinto # 0
  THEN [h |-> h, err |-> "AssertionError"]
  ELSE Only({[h |-> [s.h EXCEPT ![x].members = s.d], err |-> s.err] :
              s \in {ReplaceableDict_setrep(h, h[x].members, member, net)}})

\* The loop of Bus.merge_into over the members of the bus x.
Bus_merge_members(h, x, item, todo) ==
  IF todo = {} THEN [h |-> h, err |-> ""]
  ELSE LET member == FirstMember(todo)
           g == ReplaceableDict_getrep(h, h[x].members, member, 0)
       IN Only({IF a.err # "" THEN a
                ELSE Bus_merge_members(a.h, x, item, todo \ {member}) :
                a \in {Bus_add_member([h EXCEPT ![x].members = g.d], item,
                                      member, g.r)}})

\* Bus.merge_into(item) on the bus x.
Bus_merge_into(h, x, item) ==
  IF h[item].isbus # 1 \/ h[x].mergedinto # 0
  THEN [h |-> h, err |-> "AssertionError"]
  ELSE LET r == RootOf(h, item)
       IN IF r = x THEN [h |-> h, err |-> ""]
          ELSE Only({IF mm.err # "" THEN mm
                     ELSE [h |-> NetBus_merge_into(
                                   [mm.h EXCEPT
                                      ![r].sheetpins = @ \o mm.h[x].sheetpins,
                                      ![r].subsheet = @ \o mm.h[x].subsheet],
                                   x, r),
                           err |-> ""] :
                     mm \in {Bus_merge_members(h, x, r,
                                               DOMAIN h[x].members)}})

\* NetObj.test(other): a NetObj is [xys, is_bus], a point is <<x, y>>.
Between(a, v, b) == (a <= v /\ v <= b) \/ (b <= v /\ v <= a)

RECURSIVE NetObj_test(_, _)
NetObj_test(self, other) ==
  LET p == self.xys
      xy == other.xys[1]
  IN IF Len(other.xys) > Len(self.xys) THEN NetObj_test(other, self)
     ELSE IF self.is_bus # other.is_bus
             /\ UNKNOWN \notin {self.is_bus, other.is_bus} THEN FALSE
     ELSE IF Len(other.xys) > 1
     THEN \E k \in 1..Len(other.xys) : \E j \in 1..Len(p) : other.xys[k] = p[j]
     ELSE IF ~Between(p[1][1], xy[1], p[2][1]) THEN FALSE
     ELSE IF ~Between(p[1][2], xy[2], p[2][2]) THEN FALSE
     ELSE (p[2][1] - p[1][1]) * (xy[2] - p[1][2])
          = (xy[1] - p[1][1]) * (p[2][2] - p[1][2])

\* Label.bus: the first match of BUS_RE's [m..n] with one-digit indices (the
\* labels of the model have no {group}); 0 is no match.
BusAt(text, k) ==
  /\ k + 5 <= Len(text)
  /\ text[k] = "[" /\ IsDigit(text[k + 1]) /\ text[k + 2] = "."
  /\ text[k + 3] = "." /\ IsDigit(text[k + 4]) /\ text[k + 5] = "]"

Label_bus(text) ==
  IF \E k \in 1..Len(text) : BusAt(text, k)
  THEN Min({k \in 1..Len(text) : BusAt(text, k)}) ELSE 0

\* Label.expand_bus: the (member, netname) of each index of the range; the
\* suffix is dropped.
Label_expand_bus(text) ==
  LET k == Label_bus(text)
      prefix == SubSeq(text, 1, k - 1)
      m == DigitsValue(<<text[k + 1]>>)
      n == DigitsValue(<<text[k + 4]>>)
      lo == IF m < n THEN m ELSE n
      hi == IF m < n THEN n ELSE m
  IN IF k = 0 THEN <<>>
     ELSE [j \in 1..(hi - lo + 1) |->
             [member |-> <<Digits[lo + j]>>,
              netname |-> prefix \o <<Digits[lo + j]>>]]

\* str.rstrip("/")
RECURSIVE Rstrip(_)
Rstrip(t) ==
  IF t # <<>> /\ t[Len(t)] = "/" THEN Rstrip(SubSeq(t, 1, Len(t) - 1)) ELSE t

\* InstCoord(instance, xy, is_bus)
InstCoord(inst, xy, is_bus) == <<inst, xy[1], xy[2], is_bus>>

\* InstLabel.instance of a global label (None).
GlobalInst == <<"*">>

\* InstLabel(context, text, is_global)
InstLabel(inst, text, is_global) ==
  <<IF is_global THEN GlobalInst ELSE inst, text>>

\* Instance(context, include_uuid=True) of a context whose last item with a
\* uuid is the sheet symbol uuid.
Instance_uuid(inst, uuid) == Append(inst, uuid)

\* The netprefix the caller sets for a page instance: the names of the
\* sheets of its path (here their uuids) between slashes.
RECURSIVE netprefix(_)
netprefix(inst) ==
  IF inst = <<>> THEN <<"/">>
  ELSE netprefix(SubSeq(inst, 1, Len(inst) - 1)) \o <<inst[Len(inst)], "/">>

\* netbus.add_name(name, category) with its assertion, in a Netlister st.
Netlister_add_name(st, x, name, category) ==
  IF st.objs[x].mergedinto # 0
  THEN [st EXCEPT !.err = FirstErr(@, "AssertionError")]
  ELSE [st EXCEPT !.objs = NetBus_add_name(@, x, name, category)]

\* Netlister._add_node(ic, item): the Netlister with the net or bus in r.
Netlister__add_node(st, ic, xys) ==
  LET g == ReplaceableDict_getrep(st.objs, st.by_instcoord, ic, 0)
      node == [xys |-> xys, is_bus |-> ic[4]]
      hits == {k \in 1..Len(st.wires) :
                 st.wires[k].inst = ic[1] /\ NetObj_test(st.wires[k].obj, node)}
      wire == st.wires[Min(hits)].obj
      gw == ReplaceableDict_getrep(st.objs, st.by_instcoord,
                                   InstCoord(ic[1], wire.xys[1], ic[4]), 0)
      new == Len(st.objs) + 1
  IN IF ic \in DOMAIN st.by_instcoord
     THEN [st EXCEPT !.by_instcoord = g.d, !.r = g.r]
     ELSE IF hits # {}
     THEN [st EXCEPT !.by_instcoord = Put(gw.d, ic, gw.r), !.r = gw.r,
                     !.err = FirstErr(@, gw.err)]
     ELSE [st EXCEPT !.objs = Append(@, NetBus_new(ic[4])),
                     !.by_instcoord = Put(@, ic, new), !.r = new]

\* The loop of Netlister._add_wire over the nodes, from the last to the
\* first; i is the index of the node, netbus what was found so far.
RECURSIVE Netlister__add_wire_nodes(_, _, _, _, _)
Netlister__add_wire_nodes(st, inst, wire, i, netbus) ==
  LET node == st.nodes[i].obj
      ic == InstCoord(inst, node.xys[1], node.is_bus)
      g == ReplaceableDict_getrep(st.objs, st.by_instcoord, ic, 0)
  IN IF i = 0 THEN [st EXCEPT !.r = netbus]
     ELSE IF st.nodes[i].inst # inst \/ ~NetObj_test(wire, node)
     THEN Netlister__add_wire_nodes(st, inst, wire, i - 1, netbus)
     ELSE IF netbus = 0
     THEN Netlister__add_wire_nodes(
            [st EXCEPT !.by_instcoord = g.d, !.nodes = RemoveAt(@, i),
                       !.err = FirstErr(@, g.err)],
            inst, wire, i - 1, g.r)
     ELSE Only({Netlister__add_wire_nodes(
                  [st EXCEPT !.objs = s.h, !.by_instcoord = s.d,
                             !.nodes = RemoveAt(@, i),
                             !.err = FirstErr(@, s.err)],
                  inst, wire, i - 1, s.r) :
                s \in {ReplaceableDict_setrep(st.objs, st.by_instcoord, ic,
                                              netbus)}})

\* Netlister._add_wire(inst, wire)
Netlister__add_wire(st, inst, wire) ==
  Netlister__add_wire_nodes(
    [st EXCEPT !.wires = Append(@, [inst |-> inst, obj |-> wire])],
    inst, wire, Len(st.nodes), 0)

\* The loop of Netlister.add_wire over the points of the wire.
RECURSIVE Netlister_add_wire_pts(_, _, _, _)
Netlister_add_wire_pts(st, inst, wire, k) ==
  LET ic == InstCoord(inst, wire.xys[k], wire.is_bus)
      new == Len(st.objs) + 1
      h1 == Append(st.objs, NetBus_new(wire.is_bus))
      g == ReplaceableDict_getrep(h1, st.by_instcoord, ic, new)
  IN IF k > Len(wire.xys) THEN st
     ELSE IF st.r = 0
     THEN Netlister_add_wire_pts(
            [st EXCEPT !.objs = h1, !.by_instcoord = g.d, !.r = g.r],
            inst, wire, k + 1)
     ELSE Only({Netlister_add_wire_pts(
                  [st EXCEPT !.objs = s.h, !.by_instcoord = s.d, !.r = s.r,
                             !.err = FirstErr(@, s.err)],
                  inst, wire, k + 1) :
                s \in {ReplaceableDict_setrep(st.objs, st.by_instcoord, ic,
                                              st.r)}})

\* Netlister.add_wire(context, wire)
Netlister_add_wire(st, inst, wire) ==
  Only({Netlister_add_wire_pts(found, inst, wire, 1) :
          found \in {Netlister__add_wire(st, inst, wire)}})

\* The loop of Netlister.add_label over the members of a bus label; netbus
\* is the bus of the label.
RECURSIVE Netlister_add_label_members(_, _, _, _, _)
Netlister_add_label_members(st, inst, is_global, netbus, todo) ==
  LET m == Head(todo)
      il == InstLabel(inst, m.netname, is_global)
      new == Len(st.objs) + 1
      h1 == Append(st.objs, Net_new)
      g == ReplaceableDict_getrep(h1, st.by_instlabel, il, new)
  IN IF todo = <<>> THEN [st EXCEPT !.r = netbus]
     ELSE Only({Netlister_add_label_members(
                  Netlister_add_name(
                    [st EXCEPT !.objs = a.h, !.by_instlabel = g.d,
                               !.err = FirstErr(@, a.err)],
                    g.r,
                    <<IF is_global THEN m.member
                      ELSE Rstrip(netprefix(inst)) \o <<"/">> \o m.netname>>,
                    CAT_LABEL),
                  inst, is_global, netbus, Tail(todo)) :
                a \in {Bus_add_member(h1, netbus, m.member, g.r)}})

\* Netlister.add_label(context, label): a label is [text, xy, is_global].
Netlister_add_label(st, inst, label) ==
  LET bus == Label_bus(label.text)
      ic == InstCoord(inst, label.xy, IF bus # 0 THEN 1 ELSE 0)
      il == InstLabel(inst, label.text, label.is_global)
      name == <<IF label.is_global THEN label.text
                ELSE Rstrip(netprefix(inst)) \o <<"/">> \o label.text>>
  IN Only({IF bus = 0 THEN named
           ELSE Netlister_add_label_members(named, inst, label.is_global,
                                            named.r,
                                            Label_expand_bus(label.text)) :
           named \in
             {Only({Netlister_add_name(
                      [n EXCEPT !.objs = s.h, !.by_instlabel = s.d,
                                !.r = s.r, !.err = FirstErr(@, s.err)],
                      s.r, name, CAT_LABEL) :
                    s \in {ReplaceableDict_setrep(n.objs, n.by_instlabel,
                                                  il, n.r)}}) :
              n \in {Netlister__add_node(st, ic, <<label.xy>>)}}})

\* Bus.add_sheetpin(subsheet_bus, pinname, local_labels) on the bus x.
Bus_add_sheetpin(h, x, subsheet_bus, pinname, local_labels) ==
  [h EXCEPT ![x].subsheet = Append(@, subsheet_bus),
            ![x].sheetpins = Append(@, [pinname |-> pinname,
                                        local_labels |-> local_labels])]

\* Netlister.add_sheetpin(context, pin): a pin is [text, xy, uuid], uuid
\* that of its sheet symbol.
Netlister_add_sheetpin(st, inst, pin) ==
  LET bus == Label_bus(pin.text)
      ic == InstCoord(inst, pin.xy, IF bus # 0 THEN 1 ELSE 0)
      il == InstLabel(Instance_uuid(inst, pin.uuid), pin.text, FALSE)
      eb == Label_expand_bus(pin.text)
      local_labels == [j \in 1..Len(eb) |->
                         [il |-> InstLabel(inst, eb[j].netname, FALSE),
                          member |-> eb[j].member]]
      Bound(n) ==
        LET new == Len(n.objs) + 1
            h1 == Append(n.objs, Bus_new)
            g == ReplaceableDict_getrep(h1, n.by_instlabel, il, new)
        IN IF n.objs[n.r].mergedinto # 0
           THEN [n EXCEPT !.err = FirstErr(@, "AssertionError")]
           ELSE [n EXCEPT !.unresolved = Append(@, n.r),
                          !.objs = Bus_add_sheetpin(h1, n.r, g.r, pin.text,
                                                    local_labels),
                          !.by_instlabel = g.d]
  IN Only({IF bus # 0 THEN Bound(n)
           ELSE Only({[n EXCEPT !.objs = s.h, !.by_instlabel = s.d,
                                !.r = s.r, !.err = FirstErr(@, s.err)] :
                      s \in {ReplaceableDict_setrep(n.objs, n.by_instlabel,
                                                    il, n.r)}}) :
           n \in {Netlister__add_node(st, ic, <<pin.xy>>)}})

\* Netlister.add_sympin(context, pin): a pin is [pinnet, xy, is_pwr, is_nc],
\* pinnet the name of a hidden power input or (refdes, name, number).
Netlister_add_sympin(st, inst, pin) ==
  LET new == Len(st.objs) + 1
      h1 == Append(st.objs, Net_new)
      ic == InstCoord(inst, pin.xy, 0)
      il == InstLabel(inst, pin.pinnet[1], TRUE)
      g == ReplaceableDict_getrep(h1, st.by_instlabel, il, new)
      netbus == IF pin.is_pwr THEN g.r ELSE new
      h2 == IF ~pin.is_pwr /\ pin.is_nc
            THEN [h1 EXCEPT ![new].ncs = @ \cup {inst}] ELSE h1
  IN Only({Netlister_add_name(
             [st EXCEPT !.objs = s.h, !.by_instcoord = s.d,
                        !.by_instlabel = IF pin.is_pwr THEN g.d ELSE @,
                        !.r = s.r, !.err = FirstErr(@, s.err)],
             s.r, pin.pinnet, IF pin.is_pwr THEN CAT_POWER ELSE CAT_SYMPIN) :
           s \in {ReplaceableDict_setrep(h2, st.by_instcoord, ic, netbus)}})

\* Netlister.add_nc(context, nc): for is_bus in False, True.
Netlister_add_nc_one(st, inst, xy, is_bus) ==
  Only({[n EXCEPT !.objs[n.r].ncs = @ \cup {inst}] :
          n \in {Netlister__add_node(st, InstCoord(inst, xy, is_bus),
                                     <<xy>>)}})

Netlister_add_nc(st, inst, xy) ==
  Only({Netlister_add_nc_one(one, inst, xy, 1) :
          one \in {Netlister_add_nc_one(st, inst, xy, 0)}})

\* by_instcoord.getrep(ic, NetBus.new(is_bus)) of add_busentry and
\* add_junction.
Netlister_getrep_new(st, inst, xy, is_bus) ==
  LET new == Len(st.objs) + 1
      h1 == Append(st.objs, NetBus_new(is_bus))
      g == ReplaceableDict_getrep(h1, st.by_instcoord,
                                  InstCoord(inst, xy, is_bus), new)
  IN [st EXCEPT !.objs = h1, !.by_instcoord = g.d, !.r = g.r]

\* Netlister.add_junction(context, junction)
Netlister_add_junction(st, inst, xy) ==
  Only({Netlister_getrep_new(one, inst, xy, 1) :
          one \in {Netlister_getrep_new(st, inst, xy, 0)}})

\* Netlister.add_busentry(context, busentry): for is_bus, for pt in pts.
RECURSIVE Netlister_add_busentry_from(_, _, _, _)
Netlister_add_busentry_from(st, inst, pts, k) ==
  IF k > 2 * Len(pts) THEN st
  ELSE Only({Netlister_add_busentry_from(one, inst, pts, k + 1) :
               one \in {Netlister_getrep_new(
                          st, inst, pts[((k - 1) % Len(pts)) + 1],
                          IF k > Len(pts) THEN 1 ELSE 0)}})

Netlister_add_busentry(st, inst, pts) ==
  Netlister_add_busentry_from(st, inst, pts, 1)

\* min(sheetpins, key=lambda sp: (sp[0].upper(), sp[0])): the first sheet
\* pin that no other is below.
SheetpinKey(sp) == <<upper(sp.pinname), sp.pinname>>

MinSheetpin(sheetpins) ==
  sheetpins[Min({k \in 1..Len(sheetpins) :
                   \A j \in 1..Len(sheetpins) :
                     ~TupleLess(SheetpinKey(sheetpins[j]),
                                SheetpinKey(sheetpins[k]))})]

\* The list comprehension of Bus.gen_local_labels: a new Net under each
\* member of il_members; labels are the (il, net) made so far.
RECURSIVE Bus_gen_members(_, _, _, _)
Bus_gen_members(h, x, todo, labels) ==
  LET new == Len(h) + 1
  IN IF todo = <<>> THEN [h |-> h, labels |-> labels, err |-> ""]
     ELSE Only({IF a.err # ""
                THEN [h |-> a.h, labels |-> labels, err |-> a.err]
                ELSE Bus_gen_members(
                       a.h, x, Tail(todo),
                       Append(labels, [il |-> Head(todo).il, net |-> new])) :
                a \in {Bus_add_member(Append(h, Net_new), x,
                                      Head(todo).member, new)}})

\* Bus.gen_local_labels() on the bus x.
Bus_gen_local_labels(h, x) ==
  LET self == RootOf(h, x)
      sheetpins == h[self].sheetpins
      cleared == [h EXCEPT ![self].sheetpins = <<>>]
  IN IF sheetpins = <<>> \/ NetBus_name(cleared, self) # <<>>
     THEN [h |-> cleared, labels |-> <<>>, err |-> ""]
     ELSE IF DOMAIN h[self].members # {}
     THEN [h |-> cleared, labels |-> <<>>, err |-> "AssertionError"]
     ELSE Bus_gen_members(cleared, self,
                          MinSheetpin(sheetpins).local_labels, <<>>)

\* The inner loop of Bus.resolve_sheetpins: the members of self that the
\* subsheet bus has too.
RECURSIVE Bus_resolve_members(_, _, _, _)
Bus_resolve_members(h, self, subsheet_bus, todo) ==
  LET member == FirstMember(todo)
      g == ReplaceableDict_getrep(h, h[self].members, member, 0)
  IN IF todo = {} THEN [h |-> h, err |-> ""]
     ELSE IF member \notin DOMAIN h[subsheet_bus].members
     THEN Bus_resolve_members(h, self, subsheet_bus, todo \ {member})
     ELSE Only({IF a.err # "" THEN a
                ELSE Bus_resolve_members(a.h, self, subsheet_bus,
                                         todo \ {member}) :
                a \in {Bus_add_member([h EXCEPT ![self].members = g.d],
                                      subsheet_bus, member, g.r)}})

\* The loop of Bus.resolve_sheetpins over the subsheet buses.
RECURSIVE Bus_resolve_subsheets(_, _, _)
Bus_resolve_subsheets(h, self, todo) ==
  LET subsheet_bus == RootOf(h, Head(todo))
  IN IF todo = <<>> THEN [h |-> h, err |-> ""]
     ELSE Only({IF done.err # "" THEN done
                ELSE Bus_resolve_subsheets(done.h, self, Tail(todo)) :
                done \in
                  {IF DOMAIN h[subsheet_bus].members = DOMAIN h[self].members
                   THEN Bus_merge_into(h, subsheet_bus, self)
                   ELSE Bus_resolve_members(h, self, subsheet_bus,
                                            DOMAIN h[self].members)}})

\* Bus.resolve_sheetpins() that clears _subsheet_buses before it takes the
\* list to go through.
Bus_resolve_sheetpins_cleared(h, x) ==
  LET self == RootOf(h, x)
      cleared == [h EXCEPT ![self].subsheet = <<>>]
  IN IF h[self].sheetpins # <<>> THEN [h |-> h, err |-> "AssertionError"]
     ELSE Bus_resolve_subsheets(cleared, self, cleared[self].subsheet)

\* Bus.resolve_sheetpins() on the bus x.
Bus_resolve_sheetpins(h, x) ==
  LET self == RootOf(h, x)
  IN IF h[self].sheetpins # <<>> THEN [h |-> h, err |-> "AssertionError"]
     ELSE Bus_resolve_subsheets([h EXCEPT ![self].subsheet = <<>>], self,
                                h[self].subsheet)

\* by_instlabel.setrep(il, net) for the labels of one bus.
RECURSIVE Netlister_resolve_labels(_, _)
Netlister_resolve_labels(st, labels) ==
  IF labels = <<>> THEN st
  ELSE Only({Netlister_resolve_labels(
               [st EXCEPT !.objs = s.h, !.by_instlabel = s.d,
                          !.err = FirstErr(@, s.err)],
               Tail(labels)) :
             s \in {ReplaceableDict_setrep(st.objs, st.by_instlabel,
                                           Head(labels).il,
                                           Head(labels).net)}})

\* The first loop of Netlister.resolve, from the bus k of the unresolved.
RECURSIVE Netlister_resolve_gen(_, _)
Netlister_resolve_gen(st, k) ==
  IF k > Len(st.unresolved) \/ st.err # "" THEN st
  ELSE Only({Netlister_resolve_gen(labelled, k + 1) :
             labelled \in
               {Netlister_resolve_labels(
                  [st EXCEPT !.objs = g.h, !.err = FirstErr(@, g.err)],
                  g.labels) :
                g \in {Bus_gen_local_labels(st.objs, st.unresolved[k])}}})

\* The second loop of Netlister.resolve.
RECURSIVE Netlister_resolve_sheetpins(_, _)
Netlister_resolve_sheetpins(st, k) ==
  IF k > Len(st.unresolved) \/ st.err # "" THEN st
  ELSE Only({Netlister_resolve_sheetpins(
               [st EXCEPT !.objs = s.h, !.err = FirstErr(@, s.err)], k + 1) :
             s \in {Bus_resolve_sheetpins(st.objs, st.unresolved[k])}})

\* Netlister.resolve()
Netlister_resolve(st) ==
  Only({IF done.err # "" THEN done ELSE [done EXCEPT !.unresolved = <<>>] :
          done \in {Only({Netlister_resolve_sheetpins(labelled, 1) :
                            labelled \in {Netlister_resolve_gen(st, 1)}})}})

\* --- The Netlister as a state machine: nb is the Netlister, its NetBus
\* objects in nb.objs, the value the last call returned in nb.r, what it
\* raised in nb.err; nb.last is the call made last and nb.marks holds the
\* InstCoord of every label, sheet pin and no-connect added.  A netlist of wires and
\* points on one page (pc "netlist") and one of buses, bus labels and sheet
\* pins on a page and its subsheet (pc "buses") take their elements from
\* the menus below.

MaxCalls == 3
MaxBusCalls == 5

TopInst == <<>>
SubInst == <<"a">>

TextA == <<"A">>
TextB == <<"B">>
TextD01 == <<"D", "[", "0", ".", ".", "1", "]">>
TextE02 == <<"E", "[", "0", ".", ".", "2", "]">>

CallsOf(mode) == IF mode = "netlist" THEN MaxCalls ELSE MaxBusCalls

InstsOf(mode) == IF mode = "netlist" THEN {TopInst} ELSE {TopInst, SubInst}

PointsOf(mode) ==
  IF mode = "netlist" THEN {<<0, 0>>, <<1, 0>>, <<2, 0>>}
  ELSE {<<0, 0>>, <<2, 0>>}

WiresOf(mode) ==
  IF mode = "netlist"
  THEN {[xys |-> <<<<0, 0>>, <<2, 0>>>>, is_bus |-> 0],
        [xys |-> <<<<2, 0>>, <<1, 1>>>>, is_bus |-> 0],
        [xys |-> <<<<0, 0>>, <<2, 0>>>>, is_bus |-> 1]}
  ELSE {[xys |-> <<<<0, 0>>, <<2, 0>>>>, is_bus |-> 1]}

LabelsOf(mode) ==
  IF mode = "netlist"
  THEN {[text |-> t, xy |-> xy, is_global |-> FALSE] :
          t \in {TextA, TextB, TextD01}, xy \in PointsOf(mode)}
       \cup {[text |-> TextA, xy |-> xy, is_global |-> TRUE] :
               xy \in PointsOf(mode)}
  ELSE {[text |-> t, xy |-> xy, is_global |-> FALSE] :
          t \in {TextD01, TextE02}, xy \in PointsOf(mode)}

SheetpinsOf(mode) ==
  {[text |-> t, xy |-> xy, uuid |-> "a"] :
     t \in (IF mode = "netlist" THEN {TextA, TextD01}
            ELSE {TextD01, TextE02}),
     xy \in PointsOf(mode)}

SympinsOf(mode) ==
  {[pinnet |-> <<<<"V">>>>, xy |-> xy, is_pwr |-> TRUE, is_nc |-> FALSE] :
     xy \in {<<0, 0>>, <<1, 0>>}}
  \cup {[pinnet |-> <<<<"R", "1">>, <<"A">>, <<"1">>>>, xy |-> xy,
         is_pwr |-> FALSE, is_nc |-> nc] :
          xy \in {<<0, 0>>, <<1, 0>>}, nc \in BOOLEAN}

NetlisterNew(mode) ==
  [pc |-> mode, objs |-> <<>>, by_instcoord |-> <<>>, by_instlabel |-> <<>>,
   unresolved |-> <<>>, nodes |-> <<>>, wires |-> <<>>, r |-> 0, err |-> "",
   count |-> 0, last |-> "", marks |-> {}]

NetlInit ==
  /\ nb = NetlisterNew("netlist")
  /\ sx = Idle /\ nd = Idle /\ vt = Idle /\ kp = Idle /\ hu = Idle
  /\ MatchIdle /\ MergeIdle /\ ApplyIdle /\ pd = Idle /\ ui = Idle

BusInit ==
  /\ nb = NetlisterNew("buses")
  /\ sx = Idle /\ nd = Idle /\ vt = Idle /\ kp = Idle /\ hu = Idle
  /\ MatchIdle /\ MergeIdle /\ ApplyIdle /\ pd = Idle /\ ui = Idle

NlOpen == nb.pc \in {"netlist", "buses"} /\ nb.count < CallsOf(nb.pc)

\* resolve() is called after adding everything.
NlAdding == NlOpen /\ nb.last # "resolve"

\* The Netlister after a call that left it as done: an exception ends the
\* netlisting.
Called(done, call) ==
  [done EXCEPT !.r = 0, !.count = nb.count + 1, !.last = call,
               !.pc = IF done.err # "" THEN "raised" ELSE @]

\* The InstCoord add_label and add_sheetpin make of an element.
MarkOf(inst, elem) ==
  InstCoord(inst, elem.xy, IF Label_bus(elem.text) # 0 THEN 1 ELSE 0)

NlAddWire ==
  /\ NlAdding
  /\ \E inst \in InstsOf(nb.pc) : \E wire \in WiresOf(nb.pc) :
       nb' = Called(Netlister_add_wire(nb, inst, wire), "add_wire")
  /\ UNCHANGED <<sx, nd, vt, kp, hu, matchVars, mergeVars, applyVars,
                 pd, ui>>

NlAddLabel ==
  /\ NlAdding
  /\ \E inst \in InstsOf(nb.pc) : \E label \in LabelsOf(nb.pc) :
       nb' = [Called(Netlister_add_label(nb, inst, label), "add_label")
                EXCEPT !.marks = @ \cup {MarkOf(inst, label)}]
  /\ UNCHANGED <<sx, nd, vt, kp, hu, matchVars, mergeVars, applyVars,
                 pd, ui>>

\* The sheet symbols are on the top page.
NlAddSheetpin ==
  /\ NlAdding
  /\ \E pin \in SheetpinsOf(nb.pc) :
       nb' = [Called(Netlister_add_sheetpin(nb, TopInst, pin),
                     "add_sheetpin")
                EXCEPT !.marks = @ \cup {MarkOf(TopInst, pin)}]
  /\ UNCHANGED <<sx, nd, vt, kp, hu, matchVars, mergeVars, applyVars,
                 pd, ui>>

NlAddSympin ==
  /\ NlAdding
  /\ \E pin \in SympinsOf(nb.pc) :
       nb' = Called(Netlister_add_sympin(nb, TopInst, pin), "add_sympin")
  /\ UNCHANGED <<sx, nd, vt, kp, hu, matchVars, mergeVars, applyVars,
                 pd, ui>>

NlAddNc ==
  /\ NlAdding
  /\ \E xy \in PointsOf(nb.pc) :
       nb' = [Called(Netlister_add_nc(nb, TopInst, xy), "add_nc")
                EXCEPT !.marks = @ \cup {InstCoord(TopInst, xy, 0),
                                         InstCoord(TopInst, xy, 1)}]
  /\ UNCHANGED <<sx, nd, vt, kp, hu, matchVars, mergeVars, applyVars,
                 pd, ui>>

NlAddJunction ==
  /\ NlAdding
  /\ \E xy \in PointsOf(nb.pc) :
       nb' = Called(Netlister_add_junction(nb, TopInst, xy), "add_junction")
  /\ UNCHANGED <<sx, nd, vt, kp, hu, matchVars, mergeVars, applyVars,
                 pd, ui>>

NlAddBusentry ==
  /\ NlAdding
  /\ \E pts \in {<<<<0, 0>>, <<1, 1>>>>, <<<<1, 0>>, <<2, 1>>>>} :
       nb' = Called(Netlister_add_busentry(nb, TopInst, pts), "add_busentry")
  /\ UNCHANGED <<sx, nd, vt, kp, hu, matchVars, mergeVars, applyVars,
                 pd, ui>>

NlResolve ==
  /\ NlOpen
  /\ nb' = Called(Netlister_resolve(nb), "resolve")
  /\ UNCHANGED <<sx, nd, vt, kp, hu, matchVars, mergeVars, applyVars,
                 pd, ui>>

\* x.merge_into(item) by a caller, on objects of one class.
NlMergeInto ==
  /\ NlAdding
  /\ \E x \in 1..Len(nb.objs) : \E item \in 1..Len(nb.objs) :
       /\ nb.objs[x].isbus = nb.objs[item].isbus
       /\ \E m \in {Merge_into(nb.objs, x, item)} :
            nb' = Called([nb EXCEPT !.objs = m.h, !.err = m.err],
                         "merge_into")
  /\ UNCHANGED <<sx, nd, vt, kp, hu, matchVars, mergeVars, applyVars,
                 pd, ui>>

\* by_instcoord.setrep(key, item) by a caller, item of the key's class.
NlSetrep ==
  /\ NlAdding
  /\ \E key \in DOMAIN nb.by_instcoord : \E item \in 1..Len(nb.objs) :
       /\ nb.objs[item].isbus = key[4]
       /\ \E s \in {ReplaceableDict_setrep(nb.objs, nb.by_instcoord, key,
                                            item)} :
            nb' = Called([nb EXCEPT !.objs = s.h, !.by_instcoord = s.d,
                                    !.err = s.err],
                         "setrep")
  /\ UNCHANGED <<sx, nd, vt, kp, hu, matchVars, mergeVars, applyVars,
                 pd, ui>>

\* by_instcoord.getrep(key) by a caller.
NlGetrep ==
  /\ NlAdding
  /\ \E key \in DOMAIN nb.by_instcoord :
       nb' = Called(
         [nb EXCEPT !.by_instcoord =
            ReplaceableDict_getrep(nb.objs, nb.by_instcoord, key, 0).d],
         "getrep")
  /\ UNCHANGED <<sx, nd, vt, kp, hu, matchVars, mergeVars, applyVars,
                 pd, ui>>

NetlNext ==
  \/ NlAddWire \/ NlAddLabel \/ NlAddSheetpin \/ NlAddSympin \/ NlAddNc
  \/ NlAddJunction \/ NlAddBusentry \/ NlResolve
  \/ NlMergeInto \/ NlSetrep \/ NlGetrep

BusNext == NlAddWire \/ NlAddLabel \/ NlAddSheetpin \/ NlResolve

SpecNetl == NetlInit /\ [][NetlNext]_vars

SpecBus == BusInit /\ [][BusNext]_vars

\* --- C26: the merged-into links of the NetBus objects.

\* The links from x end within n steps.
RECURSIVE EndsWithin(_, _, _)
EndsWithin(h, x, n) ==
  \/ h[x].mergedinto = 0
  \/ /\ n > 0
     /\ h[x].mergedinto \in 1..Len(h)
     /\ EndsWithin(h, h[x].mergedinto, n - 1)

Forest(h) == \A x \in 1..Len(h) : EndsWithin(h, x, Len(h))

\* The root of every object holds the names and no-connect marks the
\* object holds.
RootHoldsAll(h) ==
  \A x \in 1..Len(h) :
    /\ h[x].names \subseteq h[RootOf(h, x)].names
    /\ h[x].ncs \subseteq h[RootOf(h, x)].ncs

\* A step leaves the merged objects as they are: their link, their names
\* and their no-connect marks.
MergedStay ==
  \A x \in 1..Len(nb.objs) :
    nb.objs[x].mergedinto # 0 =>
      /\ x <= Len(nb'.objs)
      /\ nb'.objs[x].mergedinto = nb.objs[x].mergedinto
      /\ nb'.objs[x].names = nb.objs[x].names
      /\ nb'.objs[x].ncs = nb.objs[x].ncs

\* No object loses a name or a no-connect mark.
NamesKept ==
  \A x \in 1..Len(nb.objs) :
    /\ nb.objs[x].names \subseteq nb'.objs[x].names
    /\ nb.objs[x].ncs \subseteq nb'.objs[x].ncs

\* C26: after any sequence of add_* calls of the Netlister and of
\* merge_into, setrep and getrep calls, the merged-into links form a forest
\* without a cycle, an object that has been merged into another is not given
\* a name, a no-connect mark or another link afterwards, and the root of
\* each component holds every name and every no-connect mark ever added to
\* an object of the component (no object loses one).
C26_MergedIntoForest ==
  /\ [](Forest(nb.objs) /\ RootHoldsAll(nb.objs))
  /\ [][MergedStay /\ NamesKept]_vars

\* A net with a name was merged into a net that has a no-connect mark and
\* names of its own.
C26_Witness ==
  /\ nb.pc = "netlist"
  /\ \E x \in 1..Len(nb.objs) :
       /\ nb.objs[x].mergedinto # 0
       /\ nb.objs[x].names # {}
       /\ nb.objs[RootOf(nb.objs, x)].ncs # {}
       /\ nb.objs[RootOf(nb.objs, x)].names # nb.objs[x].names
  /\ \E y \in 1..Len(nb.objs) :
       nb.objs[y].mergedinto # 0 /\ nb.objs[nb.objs[y].mergedinto].mergedinto # 0

\* No call of a page of buses raises.
NlNoRaise == nb.pc # "raised"

\* On a page of wires only a direct merge_into or setrep raises.
NlRaiseOnlyDirect == nb.pc = "raised" => nb.last \in {"merge_into", "setrep"}

\* --- C27: a wire and an element on it, in either order.

\* The point of the InstCoord ic lies on the wire (NetObj.test).
OnWire(wire, ic) ==
  /\ wire.inst = ic[1]
  /\ NetObj_test(wire.obj, [xys |-> <<<<ic[2], ic[3]>>>>, is_bus |-> ic[4]])

\* The component of the wire: that of its first point.
WireRoot(wire) ==
  RootOf(nb.objs,
         nb.by_instcoord[InstCoord(wire.inst, wire.obj.xys[1],
                                   wire.obj.is_bus)])

Interior(wire, ic) ==
  \A k \in 1..Len(wire.obj.xys) : wire.obj.xys[k] # <<ic[2], ic[3]>>

\* C27: a label, sheet pin or no-connect whose point lies on a wire of its
\* page instance, at an end or inside, with the wire's bus-ness, is in the
\* component of the wire, whichever of the two was added first.
C27_OrderIndependent ==
  nb.pc = "netlist" =>
    \A k \in 1..Len(nb.wires) : \A ic \in nb.marks :
      OnWire(nb.wires[k], ic) =>
        RootOf(nb.objs, nb.by_instcoord[ic]) = WireRoot(nb.wires[k])

\* The same for the elements at an end of the wire.
C27_EndsConnected ==
  nb.pc = "netlist" =>
    \A k \in 1..Len(nb.wires) : \A ic \in nb.marks :
      OnWire(nb.wires[k], ic) /\ ~Interior(nb.wires[k], ic) =>
        RootOf(nb.objs, nb.by_instcoord[ic]) = WireRoot(nb.wires[k])

\* An element inside a wire, added after the wire, is in its component.
C27_AfterWire ==
  nb.pc = "netlist" /\ nb.last \in {"add_label", "add_sheetpin", "add_nc"}
  /\ \E k \in 1..Len(nb.wires) : \E ic \in nb.marks :
       /\ OnWire(nb.wires[k], ic) /\ Interior(nb.wires[k], ic)
       /\ RootOf(nb.objs, nb.by_instcoord[ic]) = WireRoot(nb.wires[k])

\* --- C24: the members resolve() makes for an unnamed bus with sheet pins.

\* The step is a call of resolve() after the adding.
ResolveStep == nb.pc = "buses" /\ nb.last # "resolve" /\ nb'.last = "resolve"

\* The buses resolve() finds with sheet pins to handle.
PinnedBuses ==
  {x \in 1..Len(nb.objs) :
     nb.objs[x].isbus = 1 /\ nb.objs[x].mergedinto = 0
     /\ nb.objs[x].sheetpins # <<>>}

\* After the step the bus x has a member of the name of the local label ll,
\* and the label is registered for that member's net.
Synthesized(x, ll) ==
  LET bus == nb'.objs[RootOf(nb'.objs, x)]
  IN /\ ll.member \in DOMAIN bus.members
     /\ ll.il \in DOMAIN nb'.by_instlabel
     /\ RootOf(nb'.objs, bus.members[ll.member])
        = RootOf(nb'.objs, nb'.by_instlabel[ll.il])

NoneSynthesized(x) ==
  DOMAIN nb'.objs[RootOf(nb'.objs, x)].members = DOMAIN nb.objs[x].members

\* C24: after resolve() an unnamed bus with sheet pins has a member net for
\* every member name of every one of its sheet pins, registered under the
\* local label of that member, and a bus that has a name gets no member.
C24_UnionOfSheetPins ==
  [][ResolveStep =>
       \A x \in PinnedBuses :
         IF NetBus_name(nb.objs, x) = <<>>
         THEN \A k \in 1..Len(nb.objs[x].sheetpins) :
                \A j \in 1..Len(nb.objs[x].sheetpins[k].local_labels) :
                  Synthesized(x, nb.objs[x].sheetpins[k].local_labels[j])
         ELSE NoneSynthesized(x)]_vars

\* The same for the members of the one sheet pin whose name is the least.
C24_LeastSheetPin ==
  [][ResolveStep =>
       \A x \in PinnedBuses :
         IF NetBus_name(nb.objs, x) = <<>>
         THEN LET least == MinSheetpin(nb.objs[x].sheetpins).local_labels
              IN \A j \in 1..Len(least) : Synthesized(x, least[j])
         ELSE NoneSynthesized(x)]_vars

\* resolve() has given members to an unnamed bus that had two sheet pins of
\* different names.
C24_TwoPinsResolved ==
  /\ nb.pc = "buses" /\ nb.last = "resolve"
  /\ \E x \in 1..Len(nb.objs) :
       /\ nb.objs[x].isbus = 1 /\ nb.objs[x].names = {}
       /\ DOMAIN nb.objs[x].members # {}
       /\ Len(nb.objs[x].subsheet) = 0
       /\ Cardinality({il \in DOMAIN nb.by_instlabel :
                         il[1] = SubInst /\ Label_bus(il[2]) # 0}) = 2


\* --- Netlister.resolve and the child-sheet buses ---

\* The bindings a resolve has to handle: a bus that is its own root with
\* the root of each bus in its _subsheet_buses.
RootBuses(h) ==
  {x \in 1..Len(h) : h[x].isbus = 1 /\ h[x].mergedinto = 0}

SubsheetBindings ==
  UNION {{<<p, RootOf(nb.objs, nb.objs[p].subsheet[k])>> :
            k \in 1..Len(nb.objs[p].subsheet)} : p \in RootBuses(nb.objs)}

\* self.members.keys() of the bus x when resolve_sheetpins compares them:
\* its own dict keeps its keys from the end of the first loop of resolve on.
MemberNames(x) == DOMAIN nb'.objs[x].members

MemberRoot(x, member) == RootOf(nb'.objs, nb'.objs[x].members[member])

WholeMerged(p, c) == RootOf(nb'.objs, p) = RootOf(nb'.objs, c)

PairwiseMerged(p, c) ==
  /\ RootOf(nb'.objs, p) # RootOf(nb'.objs, c)
  /\ \A member \in MemberNames(p) \cap MemberNames(c) :
       MemberRoot(p, member) = MemberRoot(c, member)
  /\ \A x \in {p, c} :
       DOMAIN nb'.objs[RootOf(nb'.objs, x)].members = MemberNames(x)
  /\ \A m1 \in MemberNames(p), m2 \in MemberNames(c) :
       m1 # m2 => MemberRoot(p, m1) # MemberRoot(c, m2)

NothingPending ==
  /\ nb'.unresolved = <<>>
  /\ \A x \in RootBuses(nb'.objs) :
       nb'.objs[x].sheetpins = <<>> /\ nb'.objs[x].subsheet = <<>>

SecondResolve == nb.pc = "buses" /\ nb.last = "resolve" /\ nb'.last = "resolve"

\* C25: a resolve() merges each child-sheet bus as a whole into the bus bound
\* to it when the two have the same member names, and otherwise merges only
\* the members with a name in both, one net per name, the two buses staying
\* apart; after it no bus is unresolved and no root bus holds a sheet pin or
\* a child-sheet bus, and a second resolve() changes nothing.
C25_ChildSheetBuses ==
  [][/\ ResolveStep =>
          /\ \A b \in SubsheetBindings :
               IF MemberNames(b[1]) = MemberNames(b[2])
               THEN WholeMerged(b[1], b[2])
               ELSE PairwiseMerged(b[1], b[2])
          /\ NothingPending
     /\ SecondResolve =>
          /\ nb'.objs = nb.objs
          /\ nb'.by_instcoord = nb.by_instcoord
          /\ nb'.by_instlabel = nb.by_instlabel
          /\ nb'.unresolved = nb.unresolved
          /\ nb'.err = ""]_vars

\* A resolve has merged one child-sheet bus that has members as a whole and
\* the members of another pairwise.
C25_BothWays ==
  /\ nb.pc = "buses" /\ nb.last = "resolve"
  /\ \E p, c \in 1..Len(nb.objs) :
       /\ p # c /\ nb.objs[p].isbus = 1 /\ nb.objs[c].isbus = 1
       /\ DOMAIN nb.objs[c].members # {}
       /\ nb.objs[c].mergedinto # 0 /\ RootOf(nb.objs, c) = RootOf(nb.objs, p)
  /\ \E p, c \in RootBuses(nb.objs) :
       /\ DOMAIN nb.objs[p].members # DOMAIN nb.objs[c].members
       /\ \E member \in DOMAIN nb.objs[p].members \cap DOMAIN nb.objs[c].members :
            RootOf(nb.objs, nb.objs[p].members[member])
              = RootOf(nb.objs, nb.objs[c].members[member])


\* ---------------------------------------------------------------------------
\* The conflict UI: a three-way merge with return_safe as a list whose
\* conflicts and safe diffs go to a DiffUI page, the user's answer, and what
\* the caller (diffui.main with three or four files per set, or
\* Project.resolve_ui) does with it.  ui.response is DiffUI._response
\* (some = FALSE for None), ui.selected what getresponse returned,
\* ui.applied the diffs handed to applylists and ui.written the files
\* written.
\* ---------------------------------------------------------------------------

MaxUiLen == 2

UiBaseItems == {Item("a", 0, 0), Item("b", 0, 0)}
UiOursItems == {Item("a", 0, 0), Item("a", 1, 0), Item("a", 0, 1), Item("b", 0, 0)}
UiTheirsItems == {Item("a", 0, 0), Item("a", 2, 0), Item("a", 0, 2), Item("b", 0, 0)}

Callers == {"main -3", "main -4", "resolve_ui"}

\* '%X' % n
HexDigits == <<"0", "1", "2", "3", "4", "5", "6", "7", "8", "9",
               "A", "B", "C", "D", "E", "F">>

RECURSIVE Hex(_)
Hex(n) ==
  IF n < 16 THEN <<HexDigits[n + 1]>>
  ELSE Hex(n \div 16) \o <<HexDigits[(n % 16) + 1]>>

\* id(self) of the Diff object d = <<side, position>>: every Diff of the
\* merge is alive while the UI runs, so the ids are pairwise different.
Diff_id(d) == (IF d[1] = "ours" THEN 160 ELSE 176) + d[2]

\* Diff.svgclass(): 'diff%X' % id(self)
svgclass(d) == <<"diff">> \o Hex(Diff_id(d))

\* Page.alldiffs(): the diffs of conflicts + safediffs, pair by pair, ours
\* before theirs.
Page_alldiffs(page) == flatten(page.conflicts \o page.safediffs)

\* idmap.update({d.svgclass(): d for d in ...}): the keys of a dict in the
\* order of their first insertion.
RECURSIVE DictKeys(_, _)
DictKeys(list, seen) ==
  IF list = <<>> THEN <<>>
  ELSE IF svgclass(Head(list)) \in seen THEN DictKeys(Tail(list), seen)
  ELSE <<Head(list)>>
       \o DictKeys(Tail(list), seen \cup {svgclass(Head(list))})

\* DiffUI.getresponse() that returns every diff of the pages.
DiffUI_getresponse_all(page, response) ==
  [some |-> TRUE, list |-> DictKeys(Page_alldiffs(page), {})]

\* DiffUI.getresponse(), after the server has shut down: None without a
\* response, else the diffs whose svgclass the response does not hold.
DiffUI_getresponse(page, response) ==
  LET NotRejected(d) == svgclass(d) \notin response.ids
  IN IF ~response.some THEN [some |-> FALSE, list |-> <<>>]
     ELSE [some |-> TRUE,
           list |-> SelectSeq(DictKeys(Page_alldiffs(page), {}), NotRejected)]

\* The ids a request to /apply can hold: those of the page's diffs, and one
\* that is no diff's.
ResponseIds ==
  {svgclass(d) : d \in Range(Page_alldiffs(ui))} \cup {<<"diff", "0">>}

UiInit ==
  /\ base \in SeqUpTo(UiBaseItems, MaxUiLen)
  /\ ours \in SeqUpTo(UiOursItems, MaxUiLen)
  /\ theirs \in SeqUpTo(UiTheirsItems, MaxUiLen)
  /\ listmode = TRUE
  /\ pc = "diff"
  /\ state = PageState(base, ours, theirs)
  /\ diffs = NoDiffs
  /\ tred = {} /\ pairs = <<>> /\ dours_safe = <<>> /\ dtheirs_safe = <<>>
  /\ safe_pairs = <<>> /\ return_safe = <<>> /\ err = "" /\ resolved = 0
  /\ MatchIdle /\ ApplyIdle
  /\ sx = Idle /\ nd = Idle /\ vt = Idle /\ nb = Idle /\ kp = Idle
  /\ hu = Idle /\ pd = Idle
  /\ \E caller \in Callers :
       ui = [pc |-> "threeway", caller |-> caller, conflicts |-> <<>>,
             safediffs |-> <<>>, response |-> [some |-> FALSE, ids |-> {}],
             selected |-> [some |-> FALSE, list |-> <<>>], applied |-> <<>>,
             result |-> "", written |-> <<>>]

\* main, line 756, and resolve_ui, line 404: ui.addpage with what threeway
\* returned; then getresponse, lines 687-692: no response yet, the server
\* runs.
UiAddPage ==
  /\ pc = "returned" /\ listmode
  /\ ui.pc = "threeway"
  /\ ui' = [ui EXCEPT !.pc = "serving", !.conflicts = pairs,
                      !.safediffs = return_safe,
                      !.response = [some |-> FALSE, ids |-> {}]]
  /\ UNCHANGED <<matchVars, mergeVars, applyVars, sx, nd, vt, nb, kp, hu, pd>>

\* DiffUI.post, lines 324-334: a request to /apply; the lines of its body
\* make the response, of which only membership is read, and the server is
\* shut down.
UiPost ==
  /\ ui.pc = "serving"
  /\ \E ids \in SUBSET ResponseIds :
       ui' = [ui EXCEPT !.pc = "shutdown",
                        !.response = [some |-> TRUE, ids |-> ids]]
  /\ UNCHANGED <<matchVars, mergeVars, applyVars, sx, nd, vt, nb, kp, hu, pd>>

\* DiffUI._launch_ui, lines 682-684: the browser ends without a request to
\* /apply and the server is shut down.
UiClose ==
  /\ ui.pc = "serving"
  /\ ui' = [ui EXCEPT !.pc = "shutdown"]
  /\ UNCHANGED <<matchVars, mergeVars, applyVars, sx, nd, vt, nb, kp, hu, pd>>

\* DiffUI.getresponse, lines 693-700.
UiReturn ==
  /\ ui.pc = "shutdown"
  /\ ui' = [ui EXCEPT !.pc = "answered",
                      !.selected = DiffUI_getresponse(ui, ui.response)]
  /\ UNCHANGED <<matchVars, mergeVars, applyVars, sx, nd, vt, nb, kp, hu, pd>>

\* main, lines 760-761, and resolve_ui, lines 409-410: selected is None.
UiCancelled ==
  /\ ui.pc = "answered" /\ ~ui.selected.some
  /\ ui' = [ui EXCEPT !.pc = "done",
                      !.result = IF ui.caller = "resolve_ui"
                                 THEN "KeyboardInterrupt" ELSE "return 2"]
  /\ UNCHANGED <<matchVars, mergeVars, applyVars, sx, nd, vt, nb, kp, hu, pd>>

\* main, lines 762-763, and resolve_ui, lines 413-414:
\* applylists(selected), selected being one flat list of diffs.
UiApply ==
  /\ ui.pc = "answered" /\ ui.selected.some
  /\ \E r \in {applylists(diffs, state,
                          IF ui.selected.list = <<>> THEN <<>>
                          ELSE <<ui.selected.list>>, {})} :
       /\ state' = r.st
       /\ ui' = [ui EXCEPT
                   !.applied = ui.selected.list,
                   !.pc = IF r.raised # "" \/ r.conflicts # <<>>
                          THEN "done" ELSE "writing",
                   !.result = IF r.raised # "" THEN r.raised
                              ELSE IF r.conflicts # <<>>
                              THEN "conflicting diffs selected" ELSE ""]
  /\ UNCHANGED <<base, ours, theirs, listmode, pc, diffs, tred, pairs,
                 dours_safe, dtheirs_safe, safe_pairs, return_safe, err,
                 resolved, matchVars, applyVars, sx, nd, vt, nb, kp, hu, pd>>

\* main, lines 764-768, and resolve_ui, lines 415-424: the base tree is
\* written to standard output, to the fourth file of the set or to the
\* page's file.
UiWrite ==
  /\ ui.pc = "writing"
  /\ ui' = [ui EXCEPT
              !.pc = "done",
              !.result = IF ui.caller = "resolve_ui" THEN "return 1"
                         ELSE "return None",
              !.written = Append(@, [to |-> IF ui.caller = "main -3"
                                            THEN "stdout"
                                            ELSE IF ui.caller = "main -4"
                                            THEN "paths[3]" ELSE "pgFile",
                                     children |-> CurrentChildren(state)])]
  /\ UNCHANGED <<matchVars, mergeVars, applyVars, sx, nd, vt, nb, kp, hu, pd>>

UiNext ==
  \/ ThreewayDiff \/ ThreewayTrial \/ ThreewayClassify \/ ThreewayReturnSafe
  \/ UiAddPage \/ UiPost \/ UiClose \/ UiReturn \/ UiCancelled \/ UiApply
  \/ UiWrite

SpecUi == UiInit /\ [][UiNext]_vars


\* --- C21: the conflict UI's answer, the apply and the write.

Submitted == ui.response.some

\* The base tree is as the merge found it, no diff was handed to applylists
\* and nothing was written.
Untouched ==
  /\ state = PageState(base, ours, theirs)
  /\ ui.applied = <<>>
  /\ ui.written = <<>>

\* The diffs of the page whose id the response does not hold.
NotRejected ==
  {d \in Range(Page_alldiffs(ui)) : svgclass(d) \notin ui.response.ids}

\* The step in which the caller applies what getresponse returned.
ApplyStep == ui.pc = "answered" /\ ui.selected.some /\ ui'.pc # "answered"

AppliedHold ==
  \A k \in 1..Len(ui.applied) :
    Important(ui.applied[k][1], ui.applied[k][2]) =>
      Holds(diffs[ui.applied[k][1]].flat[ui.applied[k][2]])

\* C21: as long as no selection was submitted, and for good when the UI ends
\* without one (getresponse returns None), no diff is applied to the base
\* tree and nothing is written; after a submission the diffs applied are
\* exactly those of the page whose id is not in the response, each once, and
\* a file is written only after they applied without a conflict, holding the
\* tree with every important one of them in effect.
C21_CancelOrApplyThenWrite ==
  /\ [](ui.pc # "idle" /\ ~Submitted => Untouched /\ ~ui.selected.some)
  /\ [](ui.pc = "done" /\ ui.result # "return None" /\ ui.result # "return 1"
          => ui.written = <<>>)
  /\ [][/\ state' # state => ApplyStep
        /\ ApplyStep =>
             /\ Submitted
             /\ Range(ui'.applied) = NotRejected
             /\ Cardinality(Range(ui'.applied)) = Len(ui'.applied)
             /\ ui'.written = <<>>
             /\ ui'.pc = "writing" <=> ui'.result = ""
        /\ ui'.written # ui.written =>
             /\ ui.pc = "writing" /\ ui.result = "" /\ ui.written = <<>>
             /\ Range(ui.applied) = NotRejected
             /\ AppliedHold
             /\ state' = state
             /\ ui'.written = <<[to |-> ui'.written[1].to,
                                 children |-> CurrentChildren(state)]>>]_vars

\* A merge with a conflict pair was shown, the user rejected one of its
\* diffs, and the others were applied and the tree written.
C21_SubmittedAndWritten ==
  /\ ui.pc = "done" /\ ui.written # <<>>
  /\ ui.conflicts # <<>>
  /\ ui.applied # <<>>
  /\ \E d \in Range(flatten(ui.conflicts)) : svgclass(d) \in ui.response.ids

\* The UI has ended without a submission and the caller has returned.
C21_Cancelled ==
  ui.pc = "done" /\ ~Submitted /\ ui.conflicts # <<>>

====
